---- MODULE Spec2Model ----
(***************************************************************************)
(* State-machine model of the storage core documented in dip-docs:         *)
(*   ESP DataPointStorage  (docs/02-esp/03-storage.md)                     *)
(*   ESP DataPointRegistry (docs/02-esp/04-registry.md, 05-royalties.md)   *)
(*   WTTP BaseWTTPStorage  (docs/03-wttp/04-storage.md)                    *)
(* Every top-level operation is one transaction: it applies all of its     *)
(* effects or reverts.  The only multi-step operation is collectRoyalties, *)
(* whose outgoing transfer hands control to the recipient.                 *)
(***************************************************************************)
EXTENDS Integers, Sequences, FiniteSets, TLC

(* ------------------------------ bounds -------------------------------- *)
ByteMax == 1
MaxLen == 1
MaxStored == 2
NumAccounts == 2
MaxRate == 2
MaxFunds == 16
GasPerByte == 15
NumPaths == 1
MaxChunks == 2
MaxVersion == 3
MaxChunkLen == 2
MaxLocated == 3
MaxHeader == 4
MaxRoyalties == 31
MaxChunkSize == 3

(* --------------------------- program constants ------------------------ *)
VERSION == 2
ZeroAddress == 0
ZeroHash == 0
FeeDivisor == 10

Bytes == 0..ByteMax
Data == UNION {[1..n -> Bytes] : n \in 0..MaxLen}
NonEmptyData == Data \ {<<>>}
Accounts == 1..NumAccounts
Publishers == Accounts \cup {ZeroAddress}
Rates == 1..MaxRate
Paths == 1..NumPaths

(* ------------------------- DataPointStorage --------------------------- *)
\* abi.encodePacked(_data, _version): the data bytes followed by the
\* one-byte version.
encodePacked(data, version) == Append(data, version)

\* keccak256, modelled as a collision-free numbering of byte strings: the
\* string is read as the digits of a number behind a leading 1.
Radix == IF ByteMax < VERSION THEN VERSION + 1 ELSE ByteMax + 1

RECURSIVE keccak256(_)
keccak256(bs) ==
    IF bs = <<>> THEN 1
    ELSE keccak256(SubSeq(bs, 1, Len(bs) - 1)) * Radix + bs[Len(bs)]

calculateDataPointAddress(data, version) ==
    keccak256(encodePacked(data, version))

calculateAddress(data) == calculateDataPointAddress(data, VERSION)

Addresses == {calculateAddress(d) : d \in Data} \cup {ZeroHash}

\* dataPointSize: length of the stored bytes, 0 if nothing is stored.
dataPointSize(dpd, a) == Len(dpd[a])

readDataPoint(dpd, a) == dpd[a]

\* Mutant: the occupancy check is left out.
addressOccupiedUnchecked(dpd, a) == FALSE

\* "Address must not already be occupied".
addressOccupied(dpd, a) == dataPointSize(dpd, a) # 0

\* Mutant: the named return value is never assigned on a fresh write.
writeDataPointNoReturn(dpd, data) ==
    IF Len(data) = 0
    THEN [err |-> "InvalidData", addr |-> ZeroHash, dpd |-> dpd]
    ELSE LET a == calculateAddress(data) IN
         IF addressOccupied(dpd, a)
         THEN [err |-> "DataExists", addr |-> a, dpd |-> dpd]
         ELSE [err |-> "", addr |-> ZeroHash, dpd |-> [dpd EXCEPT ![a] = data]]

\* Mutant: a write to an occupied address is accepted as a no-op.
writeDataPointIdempotent(dpd, data) ==
    IF Len(data) = 0
    THEN [err |-> "InvalidData", addr |-> ZeroHash, dpd |-> dpd]
    ELSE LET a == calculateAddress(data) IN
         IF addressOccupied(dpd, a)
         THEN [err |-> "", addr |-> a, dpd |-> dpd]
         ELSE [err |-> "", addr |-> a, dpd |-> [dpd EXCEPT ![a] = data]]

\* writeDataPoint: rejects empty data and an occupied address, otherwise
\* stores the bytes at their content address and returns it.
\* Mutant: empty data is stored like any other.
writeDataPointAcceptsEmpty(dpd, data) ==
    LET a == calculateAddress(data) IN
    IF addressOccupied(dpd, a)
    THEN [err |-> "DataExists", addr |-> a, dpd |-> dpd]
    ELSE [err |-> "", addr |-> a, dpd |-> [dpd EXCEPT ![a] = data]]

writeDataPoint(dpd, data) ==
    IF Len(data) = 0
    THEN [err |-> "InvalidData", addr |-> ZeroHash, dpd |-> dpd]
    ELSE LET a == calculateAddress(data) IN
         IF addressOccupied(dpd, a)
         THEN [err |-> "DataExists", addr |-> a, dpd |-> dpd]
         ELSE [err |-> "", addr |-> a, dpd |-> [dpd EXCEPT ![a] = data]]

(* ------------------------- DataPointRegistry --------------------------- *)
\* Gas consumed by writeDataPoint; the cost scales with the data size.
gasUsedFor(data) == GasPerByte * Len(data)

\* royalty_amount = gas_used x royalty_rate
getDataPointRoyalty(roy, rate, a) == roy[a].gasUsed * rate

\* Mutant: the publisher is credited the rounded-down nine tenths.
publisherShareRoundedDown(royaltyAmount) == (royaltyAmount * 9) \div FeeDivisor

\* Mutant: the publisher is credited the whole royalty and the fee is
\* retained on top of it.
publisherShareWhole(royaltyAmount) == royaltyAmount

protocolFee(royaltyAmount) == royaltyAmount \div FeeDivisor

publisherShare(royaltyAmount) == royaltyAmount - protocolFee(royaltyAmount)

Ledger(dpd, roy, rate, bal, retained, funds) ==
    [dpd |-> dpd, roy |-> roy, rate |-> rate, bal |-> bal,
     retained |-> retained, funds |-> funds]

Reverted(err, addr, arg, L) ==
    [err |-> err, addr |-> addr, arg |-> arg, paid |-> 0, new |-> FALSE, L |-> L]

\* Mutant: a royalty payment below the owed amount is let through.
paymentInsufficientUnchecked(value, owed) == FALSE

paymentInsufficient(value, owed) == value < owed

\* Mutant: a re-registration naming a publisher writes the record anew.
reRegisteredRecordOverwritten(rec, data, pub) ==
    IF pub # ZeroAddress
    THEN [publisher |-> pub, gasUsed |-> gasUsedFor(data)]
    ELSE rec

\* Mutant: a re-registration naming a publisher claims an unowned record.
reRegisteredRecordClaim(rec, data, pub) ==
    IF rec.publisher = ZeroAddress /\ pub # ZeroAddress
    THEN [publisher |-> pub, gasUsed |-> gasUsedFor(data)]
    ELSE rec

\* Mutant: a re-registration adds its gas to the figure of the record.
reRegisteredRecordGasAdded(rec, data, pub) ==
    [rec EXCEPT !.gasUsed = @ + gasUsedFor(data)]

\* The record of an address that is registered again stays as it is.
reRegisteredRecord(rec, data, pub) == rec

\* Mutant: the first registration is charged the royalty of its own data.
registerDataPointChargesFirst(L, data, pub, value) ==
    LET a == calculateAddress(data) IN
    IF dataPointSize(L.dpd, a) = 0
    THEN LET w == writeDataPoint(L.dpd, data)
             owed == gasUsedFor(data) * L.rate
         IN
         IF w.err # ""
         THEN Reverted(w.err, w.addr, 0, L)
         ELSE IF pub # ZeroAddress /\ paymentInsufficient(value, owed)
         THEN Reverted("InsufficientRoyaltyPayment", a, owed, L)
         ELSE [err |-> "", addr |-> w.addr, arg |-> 0, paid |-> 0, new |-> TRUE,
               L |-> [L EXCEPT
                  !.dpd = w.dpd,
                  !.roy = IF pub # ZeroAddress
                          THEN [L.roy EXCEPT ![a] = [publisher |-> pub,
                                                     gasUsed |-> gasUsedFor(data)]]
                          ELSE L.roy,
                  !.funds = L.funds + value]]
    ELSE LET owed == getDataPointRoyalty(L.roy, L.rate, a)
             pubOfRecord == L.roy[a].publisher
             rec == reRegisteredRecord(L.roy[a], data, pub)
         IN
         IF pubOfRecord # ZeroAddress /\ owed > 0
         THEN IF paymentInsufficient(value, owed)
              THEN Reverted("InsufficientRoyaltyPayment", a, owed, L)
              ELSE [err |-> "", addr |-> a, arg |-> 0, paid |-> owed, new |-> FALSE,
                    L |-> [L EXCEPT
                       !.bal = [L.bal EXCEPT ![pubOfRecord] = @ + publisherShare(owed)],
                       !.retained = L.retained + protocolFee(owed),
                       !.roy = [L.roy EXCEPT ![a] = rec],
                       !.funds = L.funds + value]]
         ELSE [err |-> "", addr |-> a, arg |-> 0, paid |-> 0, new |-> FALSE,
               L |-> [L EXCEPT !.roy = [L.roy EXCEPT ![a] = rec],
                               !.funds = L.funds + value]]

\* registerDataPoint(_dataPoint, _publisher) payable
registerDataPoint(L, data, pub, value) ==
    LET a == calculateAddress(data) IN
    IF dataPointSize(L.dpd, a) = 0
    THEN \* new data: store it, track the gas for a non-zero publisher
         LET w == writeDataPoint(L.dpd, data) IN
         IF w.err # ""
         THEN Reverted(w.err, w.addr, 0, L)
         ELSE [err |-> "", addr |-> w.addr, arg |-> 0, paid |-> 0, new |-> TRUE,
               L |-> [L EXCEPT
                  !.dpd = w.dpd,
                  !.roy = IF pub # ZeroAddress
                          THEN [L.roy EXCEPT ![a] = [publisher |-> pub,
                                                     gasUsed |-> gasUsedFor(data)]]
                          ELSE L.roy,
                  !.funds = L.funds + value]]
    ELSE \* existing data: the royalty, if any, is due
         LET owed == getDataPointRoyalty(L.roy, L.rate, a)
             pubOfRecord == L.roy[a].publisher
             rec == reRegisteredRecord(L.roy[a], data, pub)
         IN
         IF pubOfRecord # ZeroAddress /\ owed > 0
         THEN IF paymentInsufficient(value, owed)
              THEN Reverted("InsufficientRoyaltyPayment", a, owed, L)
              ELSE [err |-> "", addr |-> a, arg |-> 0, paid |-> owed, new |-> FALSE,
                    L |-> [L EXCEPT
                       !.bal = [L.bal EXCEPT ![pubOfRecord] = @ + publisherShare(owed)],
                       !.retained = L.retained + protocolFee(owed),
                       !.roy = [L.roy EXCEPT ![a] = rec],
                       !.funds = L.funds + value]]
         ELSE [err |-> "", addr |-> a, arg |-> 0, paid |-> 0, new |-> FALSE,
               L |-> [L EXCEPT !.roy = [L.roy EXCEPT ![a] = rec],
                               !.funds = L.funds + value]]

\* Mutant: the withdrawal is not charged to the balance.
debitedNot(balance, amount) == balance

debited(balance, amount) == balance - amount

exceedsBalance(balance, amount) == amount > balance

\* Reentrancy protection: a guarded function runs only when no guarded
\* function is already executing.
nonReentrant(stack) == stack = <<>>

\* Mutant: the whole balance is sent, whatever amount was asked for.
collectRoyaltiesSendsBalance(L, caller, amount, withdrawTo) ==
    IF exceedsBalance(L.bal[caller], amount)
    THEN [err |-> "InsufficientBalance", L |-> L, transfer |-> <<>>]
    ELSE [err |-> "",
          L |-> [L EXCEPT !.bal = [L.bal EXCEPT ![caller] = debited(@, amount)]],
          transfer |-> <<[publisher |-> caller, to |-> withdrawTo,
                          amount |-> L.bal[caller]]>>]

\* Mutant: the amount is taken off the balance of the recipient.
collectRoyaltiesDebitsRecipient(L, caller, amount, withdrawTo) ==
    IF exceedsBalance(L.bal[caller], amount)
    THEN [err |-> "InsufficientBalance", L |-> L, transfer |-> <<>>]
    ELSE [err |-> "",
          L |-> [L EXCEPT !.bal = [L.bal EXCEPT ![withdrawTo] = debited(@, amount)]],
          transfer |-> <<[publisher |-> caller, to |-> withdrawTo,
                          amount |-> amount]>>]

\* collectRoyalties(_amount, _withdrawTo), up to the outgoing transfer.
collectRoyalties(L, caller, amount, withdrawTo) ==
    IF exceedsBalance(L.bal[caller], amount)
    THEN [err |-> "InsufficientBalance", L |-> L, transfer |-> <<>>]
    ELSE [err |-> "",
          L |-> [L EXCEPT !.bal = [L.bal EXCEPT ![caller] = debited(@, amount)]],
          transfer |-> <<[publisher |-> caller, to |-> withdrawTo,
                          amount |-> amount]>>]

\* Mutant: the caller is not compared with the publisher of record.
updatePublisherAddressByAnyone(L, caller, a, newPublisher) ==
    IF newPublisher = ZeroAddress
    THEN [err |-> "InvalidPublisher", arg |-> newPublisher, L |-> L]
    ELSE [err |-> "", arg |-> 0,
          L |-> [L EXCEPT !.roy = [L.roy EXCEPT ![a].publisher = newPublisher]]]

\* Mutant: the record is rewritten as a whole and loses its gas figure.
updatePublisherAddressResetsGas(L, caller, a, newPublisher) ==
    IF L.roy[a].publisher # caller
    THEN [err |-> "InvalidPublisher", arg |-> caller, L |-> L]
    ELSE IF newPublisher = ZeroAddress
    THEN [err |-> "InvalidPublisher", arg |-> newPublisher, L |-> L]
    ELSE [err |-> "", arg |-> 0,
          L |-> [L EXCEPT !.roy = [L.roy EXCEPT
                    ![a] = [publisher |-> newPublisher, gasUsed |-> 0]]]]

\* Mutant: the balance of the publisher moves on with the record.
updatePublisherAddressMovesBalance(L, caller, a, newPublisher) ==
    IF L.roy[a].publisher # caller
    THEN [err |-> "InvalidPublisher", arg |-> caller, L |-> L]
    ELSE IF newPublisher = ZeroAddress
    THEN [err |-> "InvalidPublisher", arg |-> newPublisher, L |-> L]
    ELSE [err |-> "", arg |-> 0,
          L |-> [L EXCEPT
                   !.roy = [L.roy EXCEPT ![a].publisher = newPublisher],
                   !.bal = IF newPublisher = caller THEN L.bal
                           ELSE [L.bal EXCEPT
                                   ![newPublisher] = @ + L.bal[caller],
                                   ![caller] = 0]]]

\* updatePublisherAddress(_dataPointAddress, _newPublisher)
updatePublisherAddress(L, caller, a, newPublisher) ==
    IF L.roy[a].publisher # caller
    THEN [err |-> "InvalidPublisher", arg |-> caller, L |-> L]
    ELSE IF newPublisher = ZeroAddress
    THEN [err |-> "InvalidPublisher", arg |-> newPublisher, L |-> L]
    ELSE [err |-> "", arg |-> 0,
          L |-> [L EXCEPT !.roy = [L.roy EXCEPT ![a].publisher = newPublisher]]]

(* --------------------------- BaseWTTPStorage --------------------------- *)
ZeroMetadata == [size |-> 0, version |-> 0, header |-> 0]

RECURSIVE totalSize(_, _)
totalSize(dpd, chunks) ==
    IF chunks = <<>> THEN 0
    ELSE dataPointSize(dpd, Head(chunks)) + totalSize(dpd, Tail(chunks))

\* Mutant: the size is refreshed and the version stays.
updateMetadataStatsSizeOnly(meta, dpd, chunks) ==
    [meta EXCEPT !.size = totalSize(dpd, chunks)]

\* Mutant: the version goes up and the size stays.
updateMetadataStatsVersionOnly(meta, dpd, chunks) ==
    [meta EXCEPT !.version = @ + 1]

\* _updateMetadataStats with the size of the chunks now held.
updateMetadataStats(meta, dpd, chunks) ==
    [meta EXCEPT !.size = totalSize(dpd, chunks), !.version = @ + 1]

\* Mutant: an index behind the end is accepted and the gap is filled with
\* empty slots.
updateResourcePadded(chunks, a, chunkIndex) ==
    IF chunkIndex >= Len(chunks)
    THEN [err |-> "",
          chunks |-> [i \in 1..(chunkIndex + 1) |->
                         IF i <= Len(chunks) THEN chunks[i]
                         ELSE IF i = chunkIndex + 1 THEN a ELSE ZeroHash]]
    ELSE [err |-> "", chunks |-> [chunks EXCEPT ![chunkIndex + 1] = a]]

\* _updateResource: writes the address at the chunk index; the index may
\* point at an existing chunk or just behind the last one.
updateResource(chunks, a, chunkIndex) ==
    IF chunkIndex > Len(chunks)
    THEN [err |-> "OutOfBounds", chunks |-> chunks]
    ELSE IF chunkIndex = Len(chunks)
    THEN [err |-> "", chunks |-> Append(chunks, a)]
    ELSE [err |-> "", chunks |-> [chunks EXCEPT ![chunkIndex + 1] = a]]

Site(L, res, meta) == [L |-> L, res |-> res, meta |-> meta]

\* The royalty the site passes on with a registration: the royalty due, as
\* far as the value at hand covers it.
forwardedValue(value, owed) == IF value >= owed THEN owed ELSE value

royaltyDue(L, data) ==
    LET a == calculateAddress(data) IN
    IF dataPointSize(L.dpd, a) = 0 THEN 0
    ELSE IF L.roy[a].publisher = ZeroAddress THEN 0
    ELSE getDataPointRoyalty(L.roy, L.rate, a)

\* _createResource: registers the data with the registry and puts its
\* address at the chunk index; all of it is undone when a step fails.
\* Mutant: the address of the chunk is attached without registering the
\* data.
createResourceUnregistered(S, path, data, pub, chunkIndex, value) ==
    LET a == calculateAddress(data)
        u == updateResource(S.res[path], a, chunkIndex)
    IN
    IF u.err # ""
    THEN [err |-> u.err, addr |-> a, arg |-> Len(S.res[path]),
          left |-> value, S |-> S]
    ELSE [err |-> "", addr |-> a, arg |-> 0, left |-> value,
          S |-> Site(S.L,
                     [S.res EXCEPT ![path] = u.chunks],
                     [S.meta EXCEPT ![path] =
                         updateMetadataStats(@, S.L.dpd, u.chunks)])]

\* Mutant: the chunk array is updated and the metadata is left as it was.
createResourceStaleMetadata(S, path, data, pub, chunkIndex, value) ==
    LET fwd == forwardedValue(value, royaltyDue(S.L, data))
        r == registerDataPoint(S.L, data, pub, fwd)
    IN
    IF r.err # ""
    THEN [err |-> r.err, addr |-> r.addr, arg |-> r.arg, left |-> value, S |-> S]
    ELSE LET u == updateResource(S.res[path], r.addr, chunkIndex) IN
         IF u.err # ""
         THEN [err |-> u.err, addr |-> r.addr, arg |-> Len(S.res[path]),
               left |-> value, S |-> S]
         ELSE [err |-> "", addr |-> r.addr, arg |-> 0, left |-> value - fwd,
               S |-> Site(r.L, [S.res EXCEPT ![path] = u.chunks], S.meta)]

createResource(S, path, data, pub, chunkIndex, value) ==
    LET fwd == forwardedValue(value, royaltyDue(S.L, data))
        r == registerDataPoint(S.L, data, pub, fwd)
    IN
    IF r.err # ""
    THEN [err |-> r.err, addr |-> r.addr, arg |-> r.arg, left |-> value, S |-> S]
    ELSE LET u == updateResource(S.res[path], r.addr, chunkIndex) IN
         IF u.err # ""
         THEN [err |-> u.err, addr |-> r.addr, arg |-> Len(S.res[path]),
               left |-> value, S |-> S]
         ELSE [err |-> "", addr |-> r.addr, arg |-> 0, left |-> value - fwd,
               S |-> Site(r.L,
                          [S.res EXCEPT ![path] = u.chunks],
                          [S.meta EXCEPT ![path] =
                              updateMetadataStats(@, r.L.dpd, u.chunks)])]

\* Mutant: the data points of the resource are wiped from ESP as well.
deleteResourcePurgesData(S, path) ==
    [err |-> "",
     S |-> Site([S.L EXCEPT !.dpd = [a \in DOMAIN S.L.dpd |->
                                        IF \E i \in 1..Len(S.res[path]) :
                                               S.res[path][i] = a
                                        THEN <<>> ELSE S.L.dpd[a]]],
                [S.res EXCEPT ![path] = <<>>],
                [S.meta EXCEPT ![path] = ZeroMetadata])]

\* Mutant: the metadata is reset and the chunk array stays.
deleteResourceLeavesChunks(S, path) ==
    [err |-> "", S |-> Site(S.L, S.res,
                            [S.meta EXCEPT ![path] = ZeroMetadata])]

\* Mutant: the resources of all paths are cleared.
deleteResourceEveryPath(S, path) ==
    [err |-> "",
     S |-> Site(S.L, [q \in DOMAIN S.res |-> <<>>],
                [q \in DOMAIN S.meta |-> ZeroMetadata])]

\* _deleteResource: clears the chunk array and resets the metadata to zero;
\* the data points stay in ESP.
deleteResource(S, path) ==
    [err |-> "", S |-> Site(S.L, [S.res EXCEPT ![path] = <<>>],
                            [S.meta EXCEPT ![path] = ZeroMetadata])]

\* The chunks of a bulk upload, one _createResource after the other from
\* chunk index i on.
RECURSIVE uploadFrom(_, _, _, _, _, _)
uploadFrom(S, path, items, pub, i, value) ==
    IF items = <<>>
    THEN [err |-> "", addr |-> ZeroHash, arg |-> 0, left |-> value, S |-> S]
    ELSE LET c == createResource(S, path, Head(items), pub, i, value) IN
         IF c.err # "" THEN c
         ELSE uploadFrom(c.S, path, Tail(items), pub, i + 1, c.left)

\* Mutant: the chunks are written over the array that is there, whose tail
\* stays when it was longer.
uploadResourceKeepsTail(S, path, items, pub, value) ==
    LET u == uploadFrom(S, path, items, pub, 0, value) IN
    IF u.err # "" THEN [u EXCEPT !.S = S] ELSE u

\* Mutant: the chunks written before the one that failed stay written.
uploadResourcePartial(S, path, items, pub, value) ==
    LET cleared == Site(S.L, [S.res EXCEPT ![path] = <<>>], S.meta)
        RECURSIVE from(_, _, _, _)
        from(T, rest, i, left) ==
            IF rest = <<>>
            THEN [err |-> "", addr |-> ZeroHash, arg |-> 0, left |-> left,
                  S |-> T]
            ELSE LET c == createResource(T, path, Head(rest), pub, i, left) IN
                 IF c.err # "" THEN [c EXCEPT !.S = T]
                 ELSE from(c.S, Tail(rest), i + 1, c.left)
    IN from(cleared, items, 0, value)

\* _uploadResource: complete replacement of the resource by the chunks
\* given, written from chunk index 0.
uploadResource(S, path, items, pub, value) ==
    LET cleared == Site(S.L, [S.res EXCEPT ![path] = <<>>], S.meta)
        u == uploadFrom(cleared, path, items, pub, 0, value)
    IN
    IF u.err # "" THEN [u EXCEPT !.S = S, !.left = value] ELSE u

StoredAddresses(dpd) == {a \in Addresses : dataPointSize(dpd, a) # 0}

StoredCount(dpd) == Cardinality(StoredAddresses(dpd))

(* ------------------------------- ranges -------------------------------- *)
Range(start, end) == [start |-> start, end |-> end]

\* An index below zero counts from the end.
resolveIndex(i, length) == IF i < 0 THEN length + i ELSE i

\* Mutant: a negative end is taken as the position behind the last one
\* selected.
normalizeRangeEndExclusive(range, length) ==
    IF range.start = 0 /\ range.end = 0
    THEN Range(0, length - 1)
    ELSE Range(resolveIndex(range.start, length),
               IF range.end < 0 THEN length + range.end - 1 ELSE range.end)

\* The positions a range selects among `length` items, both ends
\* inclusive; {0, 0} selects all of them.
\* Mutant: the range {0, 0} is the first item alone.
normalizeRangeFirstOnly(range, length) ==
    Range(resolveIndex(range.start, length), resolveIndex(range.end, length))

normalizeRange(range, length) ==
    IF range.start = 0 /\ range.end = 0
    THEN Range(0, length - 1)
    ELSE Range(resolveIndex(range.start, length),
               resolveIndex(range.end, length))

\* A resolved range is rejected when an end lies outside 0..length-1; so is
\* one whose start lies behind its end.
\* Mutant: only the start of the range is held against the bounds.
rangeOutOfBoundsStartOnly(resolved, length) ==
    \/ resolved.start < 0
    \/ resolved.start > resolved.end

rangeOutOfBounds(resolved, length) ==
    \/ resolved.start < 0
    \/ resolved.end > length - 1
    \/ resolved.start > resolved.end

\* _readResource: the data point addresses of the chunks a chunk range
\* selects; a path without chunks is no resource.
\* Range ends a reader passes for `length` items: every position, counted
\* from either end, and one step outside on both sides.
RangeEnds(length) == (0 - length - 1)..(length + 1)

\* A path without chunks holds no resource: one never created and one
\* deleted read alike.
resourceMissing(chunks) == chunks = <<>>

readResource(chunks, range) ==
    IF resourceMissing(chunks)
    THEN [err |-> "NotFound", arg |-> 0, dataPoints |-> <<>>]
    ELSE LET resolved == normalizeRange(range, Len(chunks)) IN
         IF rangeOutOfBounds(resolved, Len(chunks))
         THEN [err |-> "OutOfBounds", arg |-> Len(chunks), dataPoints |-> <<>>]
         ELSE [err |-> "", arg |-> 0,
               dataPoints |-> SubSeq(chunks, resolved.start + 1,
                                     resolved.end + 1)]

(* ----------------------------- WTTP Gateway ---------------------------- *)
\* structure.sizes: the size of every data point located.
sizesOf(dpd, points) ==
    [i \in 1..Len(points) |-> dataPointSize(dpd, points[i])]

\* Mutant: the total size is that of the whole resource.
LOCATETotalOfResource(dpd, chunks, rangeChunks) ==
    LET r == readResource(chunks, rangeChunks) IN
    [err |-> r.err, arg |-> r.arg, dataPoints |-> r.dataPoints,
     sizes |-> sizesOf(dpd, r.dataPoints),
     totalSize |-> IF r.err = "" THEN totalSize(dpd, chunks) ELSE 0]

\* LOCATE: the data points of the chunk range with their sizes.
LOCATE(dpd, chunks, rangeChunks) ==
    LET r == readResource(chunks, rangeChunks) IN
    [err |-> r.err, arg |-> r.arg, dataPoints |-> r.dataPoints,
     sizes |-> sizesOf(dpd, r.dataPoints),
     totalSize |-> totalSize(dpd, r.dataPoints)]

\* The content of a resource: the bytes of its data points, each read from
\* storage, one after the other in index order.
RECURSIVE contentOf(_, _)
contentOf(dpd, points) ==
    IF points = <<>> THEN <<>>
    ELSE readDataPoint(dpd, Head(points)) \o contentOf(dpd, Tail(points))

\* Mutant: every located data point is read, the bytes outside the range
\* are dropped afterwards.
assembleReadsAll(dpd, points, offset, first, final) ==
    LET RECURSIVE all(_, _)
        all(ps, off) ==
            IF ps = <<>> THEN [data |-> <<>>, reads |-> <<>>]
            ELSE LET bytes == readDataPoint(dpd, Head(ps))
                     rest == all(Tail(ps), off + Len(bytes))
                     lo == IF first > off THEN first - off + 1 ELSE 1
                     hi == IF final < off + Len(bytes) - 1
                           THEN final - off + 1 ELSE Len(bytes)
                 IN [data |-> SubSeq(bytes, lo, hi) \o rest.data,
                     reads |-> <<Head(ps)>> \o rest.reads]
    IN all(points, offset)

\* The bytes first..final of the content whose data points are `points`,
\* the first of them starting at byte `offset`: a data point is read when
\* it overlaps the span, and its part inside the span is kept.
RECURSIVE assemble(_, _, _, _, _)
assemble(dpd, points, offset, first, final) ==
    IF points = <<>>
    THEN [data |-> <<>>, reads |-> <<>>]
    ELSE LET size == dataPointSize(dpd, Head(points))
             rest == assemble(dpd, Tail(points), offset + size, first, final)
         IN
         IF offset + size - 1 < first \/ offset > final
         THEN rest
         ELSE LET bytes == readDataPoint(dpd, Head(points))
                  lo == IF first > offset THEN first - offset + 1 ELSE 1
                  hi == IF final < offset + size - 1
                        THEN final - offset + 1 ELSE size
              IN [data |-> SubSeq(bytes, lo, hi) \o rest.data,
                  reads |-> <<Head(points)>> \o rest.reads]

\* Mutant: the chunks that overlap the byte range are returned whole.
GETWholeChunks(dpd, chunks, rangeChunks, rangeBytes) ==
    LET loc == LOCATE(dpd, chunks, rangeChunks) IN
    IF loc.err # ""
    THEN [err |-> loc.err, arg |-> loc.arg, data |-> <<>>, reads |-> <<>>,
          sizes |-> <<>>]
    ELSE LET resolved == normalizeRange(rangeBytes, loc.totalSize) IN
         IF rangeOutOfBounds(resolved, loc.totalSize)
         THEN [err |-> "OutOfBounds", arg |-> loc.totalSize, data |-> <<>>,
               reads |-> <<>>, sizes |-> <<>>]
         ELSE LET got == assemble(dpd, loc.dataPoints, 0, resolved.start,
                                  resolved.end)
              IN [err |-> "", arg |-> 0,
                  data |-> assemble(dpd, got.reads, 0, 0,
                                    totalSize(dpd, got.reads) - 1).data,
                  reads |-> got.reads, sizes |-> loc.sizes]

\* GET: the bytes of the byte range within the chunks of the chunk range.
GET(dpd, chunks, rangeChunks, rangeBytes) ==
    LET loc == LOCATE(dpd, chunks, rangeChunks) IN
    IF loc.err # ""
    THEN [err |-> loc.err, arg |-> loc.arg, data |-> <<>>, reads |-> <<>>,
          sizes |-> <<>>]
    ELSE LET resolved == normalizeRange(rangeBytes, loc.totalSize) IN
         IF rangeOutOfBounds(resolved, loc.totalSize)
         THEN [err |-> "OutOfBounds", arg |-> loc.totalSize, data |-> <<>>,
               reads |-> <<>>, sizes |-> <<>>]
         ELSE LET got == assemble(dpd, loc.dataPoints, 0, resolved.start,
                                  resolved.end)
              IN [err |-> "", arg |-> 0, data |-> got.data,
                  reads |-> got.reads, sizes |-> loc.sizes]

\* streamLargeFile: LOCATE for the total size, then one GET for each
\* stretch of chunkSize bytes from offset 0 on, the last stretch ending
\* with the content; the responses are concatenated.
streamLargeFile(dpd, chunks, chunkSize) ==
    LET loc == LOCATE(dpd, chunks, Range(0, 0))
        RECURSIVE loop(_, _, _)
        loop(offset, got, requests) ==
            IF offset < loc.totalSize
            THEN LET last == offset + chunkSize - 1
                     end == IF last < loc.totalSize - 1
                            THEN last ELSE loc.totalSize - 1
                     response == GET(dpd, chunks, Range(0, 0),
                                     Range(offset, end))
                 IN
                 IF response.err # ""
                 THEN [err |-> response.err, data |-> got,
                       requests |-> requests + 1]
                 ELSE loop(offset + chunkSize, got \o response.data,
                           requests + 1)
            ELSE [err |-> "", data |-> got, requests |-> requests]
    IN
    IF loc.err # ""
    THEN [err |-> loc.err, data |-> <<>>, requests |-> 0]
    ELSE loop(0, <<>>, 0)

\* Mutant: the ETag tells only how long the content is.
calculateEtagOfSize(dpd, chunks) == totalSize(dpd, chunks)

\* The ETag of a resource: the hash of its content.
calculateEtag(dpd, chunks) == keccak256(contentOf(dpd, chunks))

\* HEAD: the status and the ETag of a resource, no content; 304 when the
\* ETag the caller holds is the ETag of the resource.
HEAD(dpd, chunks, ifNoneMatch) ==
    IF resourceMissing(chunks)
    THEN [err |-> "NotFound", status |-> 404, etag |-> ZeroHash,
          reads |-> <<>>]
    ELSE LET etag == calculateEtag(dpd, chunks) IN
         [err |-> "", status |-> IF ifNoneMatch = etag THEN 304 ELSE 200,
          etag |-> etag, reads |-> <<>>]

\* The status code a response carries for an error, 200 for none.
statusOf(err) ==
    IF err = "" THEN 200
    ELSE IF err = "Forbidden" THEN 403
    ELSE IF err = "NotFound" THEN 404
    ELSE IF err = "MethodNotAllowed" THEN 405
    ELSE IF err = "OutOfBounds" THEN 416
    ELSE 400

\* Mutant: every response that succeeds reports 200.
responseStatusAlwaysOK(dpd, chunks, r) == statusOf(r.err)

\* The status of a GET response: 200 for the full content of the resource,
\* 206 for a part of it, the status of the error otherwise.
responseStatus(dpd, chunks, r) ==
    IF r.err # "" THEN statusOf(r.err)
    ELSE IF Len(r.data) = totalSize(dpd, chunks) THEN 200
    ELSE 206

(* ---------------------- BaseWTTPSite access control -------------------- *)
\* The methods in the order of the origins array of a header.
MethodOrder ==
    <<"HEAD", "GET", "POST", "PUT", "PATCH", "DELETE", "OPTIONS", "LOCATE",
      "DEFINE">>

Methods == {MethodOrder[i] : i \in 1..Len(MethodOrder)}

\* The index of a method in the origins array, from 0.
methodIndex(method) ==
    (CHOOSE i \in 1..Len(MethodOrder) : MethodOrder[i] = method) - 1

\* Mutant: the bits of the methods are counted from the second bit.
METHODSFromSecondBit(method) == 2 ^ (methodIndex(method) + 1)

\* The METHODS table of mask bits.
METHODS(method) ==
    CASE method = "HEAD" -> 1
      [] method = "GET" -> 2
      [] method = "POST" -> 4
      [] method = "PUT" -> 8
      [] method = "PATCH" -> 16
      [] method = "DELETE" -> 32
      [] method = "OPTIONS" -> 64
      [] method = "LOCATE" -> 128
      [] method = "DEFINE" -> 256

\* a | b on non-negative integers.
RECURSIVE bitOr(_, _)
bitOr(a, b) ==
    IF a = 0 THEN b
    ELSE IF b = 0 THEN a
    ELSE (IF a % 2 = 1 \/ b % 2 = 1 THEN 1 ELSE 0)
         + 2 * bitOr(a \div 2, b \div 2)

\* Whether the bit of the method is set in a methods bitmask.
maskAllows(mask, method) == (mask \div METHODS(method)) % 2 = 1

allowedMethods(mask) == {method \in Methods : maskAllows(mask, method)}

\* The masks of the documentation: every method, GET and HEAD, and the mask
\* of the static header.
allMethods == 65535

readOnly == bitOr(METHODS("GET"), METHODS("HEAD"))

staticMethods == 4


Roles == {"PUBLIC_ROLE", "SITE_ADMIN_ROLE"}

\* The accounts that hold SITE_ADMIN_ROLE.
SiteAdmins == {1}

hasRole(role, account) == role = "PUBLIC_ROLE" \/ account \in SiteAdmins

HeaderIds == 0..MaxHeader

\* The headers of the site, by their reference: the default header with
\* public reading and writing for site admins; a header open to the public
\* for every method; a header that allows HEAD and GET alone; a header
\* that asks the site admin role for every method; the static header.
headerInfo(h) ==
    IF h = 1
    THEN [methods |-> allowedMethods(allMethods),
          origins |-> [m \in Methods |-> "PUBLIC_ROLE"]]
    ELSE IF h = 2
    THEN [methods |-> allowedMethods(readOnly),
          origins |-> [m \in Methods |->
                          IF m \in {"HEAD", "GET", "LOCATE"}
                          THEN "PUBLIC_ROLE" ELSE "SITE_ADMIN_ROLE"]]
    ELSE IF h = 3
    THEN [methods |-> allowedMethods(allMethods),
          origins |-> [m \in Methods |-> "SITE_ADMIN_ROLE"]]
    ELSE IF h = 4
    THEN [methods |-> allowedMethods(staticMethods),
          origins |-> [m \in Methods |-> "PUBLIC_ROLE"]]
    ELSE [methods |-> allowedMethods(allMethods),
          origins |-> [m \in Methods |->
                          IF m \in {"HEAD", "GET", "LOCATE"}
                          THEN "PUBLIC_ROLE" ELSE "SITE_ADMIN_ROLE"]]

readHeader(meta, path) == headerInfo(meta[path].header)

methodAllowed(meta, path, method) == method \in readHeader(meta, path).methods

isAuthorized(meta, path, method, account) ==
    hasRole(readHeader(meta, path).origins[method], account)

\* Mutant: every caller may use every method.
OPTIONSAllowsAll(meta, path, method, account) == ""

\* _OPTIONS, the access control check of a site method: the method has to
\* be allowed for the resource and the caller has to hold its role.
OPTIONS(meta, path, method, account) ==
    IF ~methodAllowed(meta, path, method) THEN "MethodNotAllowed"
    ELSE IF ~isAuthorized(meta, path, method, account) THEN "Forbidden"
    ELSE ""

\* The answer to a call the access control check refused.
Refused(S, err, value) ==
    [err |-> err, addr |-> ZeroHash, arg |-> 0, left |-> value, S |-> S]

\* PUT: create or completely replace a resource.
PUT(S, account, path, items, pub, value) ==
    LET denial == OPTIONS(S.meta, path, "PUT", account) IN
    IF denial # "" THEN Refused(S, denial, value)
    ELSE uploadResource(S, path, items, pub, value)

\* PATCH: write one chunk of a resource.
PATCH(S, account, path, data, pub, chunkIndex, value) ==
    LET denial == OPTIONS(S.meta, path, "PATCH", account) IN
    IF denial # "" THEN Refused(S, denial, value)
    ELSE createResource(S, path, data, pub, chunkIndex, value)

\* DELETE: remove a resource.
DELETE(S, account, path) ==
    LET denial == OPTIONS(S.meta, path, "DELETE", account) IN
    IF denial # "" THEN Refused(S, denial, 0)
    ELSE [Refused(S, "", 0) EXCEPT !.S = deleteResource(S, path).S]

\* DEFINE: set the header of a resource.
defineHeader(S, account, path, h) ==
    LET denial == OPTIONS(S.meta, path, "DEFINE", account) IN
    IF denial # "" THEN Refused(S, denial, 0)
    ELSE [Refused(S, "", 0) EXCEPT
             !.S = Site(S.L, S.res, [S.meta EXCEPT ![path].header = h])]

\* Mutant: the resource is looked up before the caller is checked.
locateResourceFirst(S, account, path, rangeChunks) ==
    LET loc == LOCATE(S.L.dpd, S.res[path], rangeChunks)
        denial == OPTIONS(S.meta, path, "LOCATE", account)
    IN
    IF loc.err = "NotFound" THEN loc
    ELSE IF denial # ""
    THEN [err |-> denial, arg |-> 0, dataPoints |-> <<>>, sizes |-> <<>>,
          totalSize |-> 0]
    ELSE loc

\* LOCATE of a site: the access control check, then the data points of
\* the chunk range with their sizes.
locate(S, account, path, rangeChunks) ==
    LET denial == OPTIONS(S.meta, path, "LOCATE", account) IN
    IF denial # ""
    THEN [err |-> denial, arg |-> 0, dataPoints |-> <<>>, sizes |-> <<>>,
          totalSize |-> 0]
    ELSE LOCATE(S.L.dpd, S.res[path], rangeChunks)

(* ------------------------------ state ---------------------------------- *)
VARIABLES
    dataPointData,       \* DataPointStorage: address -> bytes
    dataPointRoyalties,  \* DataPointRegistry: address -> [publisher, gasUsed]
    royaltyRate,         \* DataPointRegistry: owner-set rate
    publisherBalance,    \* DataPointRegistry: account -> withdrawable balance
    protocolRetained,    \* protocol's share of the royalties paid
    contractFunds,       \* value held by the registry contract
    resource,            \* BaseWTTPStorage: path -> data point addresses
    metadata,            \* BaseWTTPStorage: path -> resource metadata
    pending,             \* transfer in progress (call stack of collectRoyalties)
    totalReceived,       \* history: value paid into the registry so far
    totalCredited,       \* history: royalties credited per publisher
    totalTransferred,    \* history: value transferred out per publisher
    waived,              \* history: addresses first registered with address(0)
    last                 \* the latest operation and how it ended

storeVars == <<dataPointData>>
ledgerVars == <<dataPointRoyalties, royaltyRate, publisherBalance,
                protocolRetained, contractFunds>>
catalogVars == <<resource, metadata>>
historyVars == <<totalReceived, totalCredited, totalTransferred, waived>>
vars == <<dataPointData, dataPointRoyalties, royaltyRate, publisherBalance,
          protocolRetained, contractFunds, resource, metadata, pending,
          totalReceived, totalCredited, totalTransferred, waived, last>>

\* op: the operation; err: "" or the error it reverted with; arg: the
\* error's argument, the address a write returned, the royalty a
\* registration charged or the amount of a withdrawal; new: whether a
\* registration stored new data; reads: the number of data points a GET
\* read; status: the status code of a gateway response.
Outcome(op, err, arg) ==
    [op |-> op, err |-> err, arg |-> arg, new |-> FALSE, reads |-> 0,
     status |-> 0]

Init ==
    /\ dataPointData = [a \in Addresses |-> <<>>]
    /\ dataPointRoyalties =
           [a \in Addresses |-> [publisher |-> ZeroAddress, gasUsed |-> 0]]
    /\ royaltyRate = 1
    /\ publisherBalance = [p \in Accounts |-> 0]
    /\ protocolRetained = 0
    /\ contractFunds = 0
    /\ resource = [p \in Paths |-> <<>>]
    /\ metadata = [p \in Paths |-> ZeroMetadata]
    /\ pending = <<>>
    /\ totalReceived = 0
    /\ totalCredited = [p \in Accounts |-> 0]
    /\ totalTransferred = [p \in Accounts |-> 0]
    /\ waived = {}
    /\ last = Outcome("init", "", 0)

CurrentLedger ==
    Ledger(dataPointData, dataPointRoyalties, royaltyRate, publisherBalance,
           protocolRetained, contractFunds)

SetLedger(L) ==
    /\ dataPointData' = L.dpd
    /\ dataPointRoyalties' = L.roy
    /\ royaltyRate' = L.rate
    /\ publisherBalance' = L.bal
    /\ protocolRetained' = L.retained
    /\ contractFunds' = L.funds

CurrentSite == Site(CurrentLedger, resource, metadata)

SetSite(S) ==
    /\ SetLedger(S.L)
    /\ resource' = S.res
    /\ metadata' = S.meta

\* A site that serves one path more.
SitePaths == 1..(NumPaths + 1)

InitPaths ==
    /\ dataPointData = [a \in Addresses |-> <<>>]
    /\ dataPointRoyalties =
           [a \in Addresses |-> [publisher |-> ZeroAddress, gasUsed |-> 0]]
    /\ royaltyRate = 1
    /\ publisherBalance = [p \in Accounts |-> 0]
    /\ protocolRetained = 0
    /\ contractFunds = 0
    /\ resource = [p \in SitePaths |-> <<>>]
    /\ metadata = [p \in SitePaths |-> ZeroMetadata]
    /\ pending = <<>>
    /\ totalReceived = 0
    /\ totalCredited = [p \in Accounts |-> 0]
    /\ totalTransferred = [p \in Accounts |-> 0]
    /\ waived = {}
    /\ last = Outcome("init", "", 0)

(* ----------------------- DataPointStorage actions ---------------------- *)
WriteDataPoint ==
    \E d \in Data :
        \E r \in {writeDataPoint(dataPointData, d)} :
            /\ nonReentrant(pending)
            /\ r.err = "" => StoredCount(dataPointData) < MaxStored
            /\ dataPointData' = r.dpd
            /\ last' = Outcome("writeDataPoint", r.err, r.addr)
            /\ UNCHANGED <<ledgerVars, catalogVars, pending, historyVars>>

CalculateAddress ==
    \E d \in Data :
        /\ nonReentrant(pending)
        /\ last' = Outcome("calculateAddress", "", calculateAddress(d))
        /\ UNCHANGED <<storeVars, ledgerVars, catalogVars, pending, historyVars>>

ReadDataPoint ==
    \E a \in Addresses :
        /\ nonReentrant(pending)
        /\ last' = Outcome("readDataPoint", "", dataPointSize(dataPointData, a))
        /\ UNCHANGED <<storeVars, ledgerVars, catalogVars, pending, historyVars>>

(* ----------------------- DataPointRegistry actions --------------------- *)
\* msg.value offered with a registration: nothing, just short of the
\* royalty, or the royalty.
PayChoices(owed) ==
    IF owed = 0 THEN {0} ELSE {0, owed - 1, owed}

\* History bookkeeping of registrations that took the ledger from L to L2
\* naming publisher p: value received, royalties credited, content waived.
RecordRegistration(L, L2, p) ==
    /\ totalReceived' = totalReceived + (L2.funds - L.funds)
    /\ totalCredited' =
          [q \in Accounts |-> totalCredited[q] + (L2.bal[q] - L.bal[q])]
    /\ waived' =
          IF p = ZeroAddress
          THEN waived \cup {a \in Addresses : /\ dataPointSize(L.dpd, a) = 0
                                               /\ dataPointSize(L2.dpd, a) # 0}
          ELSE waived
    /\ UNCHANGED totalTransferred

RegisterWithin(cap, d, p, v) ==
    \E r \in {registerDataPoint(CurrentLedger, d, p, v)} :
        /\ nonReentrant(pending)
        /\ (r.err = "" /\ r.new) => StoredCount(dataPointData) < MaxStored
        /\ r.err = "" => totalReceived + v <= cap
        /\ SetLedger(r.L)
        /\ RecordRegistration(CurrentLedger, r.L, p)
        /\ last' = [Outcome("registerDataPoint", r.err,
                            IF r.err = "" THEN r.paid ELSE r.arg)
                       EXCEPT !.new = r.new]
        /\ UNCHANGED <<catalogVars, pending>>

Register(d, p, v) == RegisterWithin(MaxFunds, d, p, v)

RegisterDataPoint ==
    \E d \in Data, p \in Publishers :
        \E v \in PayChoices(royaltyDue(CurrentLedger, d)) :
            Register(d, p, v)

\* A registration sent with more than the royalty due.
RegisterOverpaid ==
    \E d \in NonEmptyData, p \in Publishers :
        /\ royaltyDue(CurrentLedger, d) > 0
        /\ Register(d, p, royaltyDue(CurrentLedger, d) + 1)

\* A further registration of content that has earned a royalty before,
\* paid with the royalty.
RegisterAgain ==
    \E d \in NonEmptyData, p \in Publishers :
        /\ royaltyDue(CurrentLedger, d) > 0
        /\ totalReceived > 0
        /\ RegisterWithin(MaxRoyalties, d, p, royaltyDue(CurrentLedger, d))

Collect(c, amt, w) ==
    \E r \in {collectRoyalties(CurrentLedger, c, amt, w)} :
        /\ nonReentrant(pending)
        /\ SetLedger(r.L)
        /\ pending' = r.transfer
        /\ last' = Outcome("collectRoyalties", r.err, amt)
        /\ UNCHANGED <<catalogVars, historyVars>>

\* Amounts a publisher asks for: the whole balance or one unit too many.
AmountChoices(balance) == {a \in {balance, balance + 1} : a > 0}

\* collectRoyalties: check and debit, then the transfer to _withdrawTo starts.
CollectRoyalties ==
    \E c \in Accounts, w \in Accounts :
        \E amt \in AmountChoices(publisherBalance[c]) :
            Collect(c, amt, w)

\* A withdrawal of a part of the balance.
CollectPart ==
    \E c \in Accounts, w \in Accounts :
        /\ publisherBalance[c] > 1
        /\ Collect(c, publisherBalance[c] - 1, w)

\* While the transfer runs, the recipient's code calls collectRoyalties
\* again; the reentrancy protection rejects the nested call.
ReenterCollectRoyalties ==
    /\ pending # <<>>
    /\ ~nonReentrant(pending)
    /\ last' = Outcome("reenter", "ReentrancyGuardReentrantCall", 0)
    /\ UNCHANGED <<storeVars, ledgerVars, catalogVars, pending, historyVars>>

\* The transfer completes: the value leaves the contract.
TransferDone ==
    /\ pending # <<>>
    /\ contractFunds' = contractFunds - pending[1].amount
    /\ totalTransferred' =
          [totalTransferred EXCEPT ![pending[1].publisher] = @ + pending[1].amount]
    /\ last' = Outcome("transfer", "", pending[1].amount)
    /\ pending' = <<>>
    /\ UNCHANGED <<dataPointData, dataPointRoyalties, royaltyRate,
                   publisherBalance, protocolRetained, catalogVars,
                   totalReceived, totalCredited, waived>>

UpdatePublisherAddress ==
    \E c \in Accounts, a \in StoredAddresses(dataPointData) \cup {ZeroHash},
       p \in Publishers :
        \E r \in {updatePublisherAddress(CurrentLedger, c, a, p)} :
            /\ nonReentrant(pending)
            /\ SetLedger(r.L)
            /\ last' = Outcome("updatePublisherAddress", r.err, r.arg)
            /\ UNCHANGED <<catalogVars, pending, historyVars>>

\* The protocol owner reconfigures the royalty rate.
SetRoyaltyRate ==
    \E r \in Rates :
        /\ nonReentrant(pending)
        /\ royaltyRate' = r
        /\ last' = Outcome("setRoyaltyRate", "", r)
        /\ UNCHANGED <<dataPointData, dataPointRoyalties, publisherBalance,
                       protocolRetained, contractFunds, catalogVars, pending,
                       historyVars>>

\* The registry with its publishers, payers and owner.
NextLedger ==
    \/ WriteDataPoint
    \/ RegisterDataPoint
    \/ RegisterOverpaid
    \/ RegisterAgain
    \/ CollectRoyalties
    \/ CollectPart
    \/ ReenterCollectRoyalties
    \/ TransferDone
    \/ UpdatePublisherAddress
    \/ SetRoyaltyRate

SpecLedger == Init /\ [][NextLedger]_vars

\* The storage contract with its direct callers and the registry writing
\* through it.
NextStore ==
    \/ WriteDataPoint
    \/ CalculateAddress
    \/ ReadDataPoint
    \/ RegisterDataPoint

SpecStore == Init /\ [][NextStore]_vars

(* ------------------------ BaseWTTPStorage actions ---------------------- *)
\* Value sent with a site request: nothing, or enough for every royalty
\* when one is due.
SiteValues(due) == {0, due}

RECURSIVE batchDue(_, _)
batchDue(L, items) ==
    IF items = <<>> THEN 0
    ELSE royaltyDue(L, Head(items)) + batchDue(L, Tail(items))

Batches == UNION {[1..n -> NonEmptyData] : n \in 1..MaxChunks}

\* Chunk indices a caller passes: an existing chunk, the next one, or one
\* past that.
IndexChoices(chunks) == {i \in 0..MaxChunks : i <= Len(chunks) + 1}

\* The caps of the model on what a successful site request may add.
WithinCaps(S, path, v, left) ==
    /\ StoredCount(S.L.dpd) <= MaxStored
    /\ Len(S.res[path]) <= MaxChunks
    /\ S.meta[path].version <= MaxVersion
    /\ totalReceived + (v - left) <= MaxFunds

CreateResourceAt(path) ==
    \E d \in Data, p \in Publishers :
      \E i \in IndexChoices(resource[path]),
         v \in SiteValues(royaltyDue(CurrentLedger, d)) :
        \E r \in {createResource(CurrentSite, path, d, p, i, v)} :
            /\ nonReentrant(pending)
            /\ r.err = "" => WithinCaps(r.S, path, v, r.left)
            /\ SetSite(r.S)
            /\ RecordRegistration(CurrentLedger, r.S.L, p)
            /\ last' = Outcome("createResource", r.err, r.arg)
            /\ UNCHANGED pending

CreateResource == \E path \in Paths : CreateResourceAt(path)

UploadResourceAt(path) ==
    \E items \in Batches, p \in Publishers :
      \E v \in SiteValues(batchDue(CurrentLedger, items)) :
        \E r \in {uploadResource(CurrentSite, path, items, p, v)} :
            /\ nonReentrant(pending)
            /\ r.err = "" => WithinCaps(r.S, path, v, r.left)
            /\ SetSite(r.S)
            /\ RecordRegistration(CurrentLedger, r.S.L, p)
            /\ last' = Outcome("uploadResource", r.err,
                               IF r.err = "" THEN Len(items) ELSE r.arg)
            /\ UNCHANGED pending

UploadResource == \E path \in Paths : UploadResourceAt(path)

DeleteResourceAt(path) ==
    \E r \in {deleteResource(CurrentSite, path)} :
        /\ nonReentrant(pending)
        /\ SetSite(r.S)
        /\ last' = Outcome("deleteResource", r.err, Len(resource[path]))
        /\ UNCHANGED <<pending, historyVars>>

DeleteResource == \E path \in Paths : DeleteResourceAt(path)

\* A reader asks the site for chunks of a resource.
ReadResource ==
    \E path \in Paths :
      \E s \in RangeEnds(Len(resource[path])),
         e \in RangeEnds(Len(resource[path])) :
        \E r \in {readResource(resource[path], Range(s, e))} :
            /\ last' = Outcome("readResource", r.err,
                               IF r.err = "" THEN Len(r.dataPoints) ELSE r.arg)
            /\ UNCHANGED <<storeVars, ledgerVars, catalogVars, pending,
                           historyVars>>

\* The ETags a caller may hold: none, or the ETag of any content a
\* resource of the site can have.
EtagChoices ==
    {ZeroHash} \cup
    {keccak256(c) : c \in UNION {[1..n -> Bytes] : n \in 1..(MaxChunks * MaxLen)}}

\* A reader asks for the headers of a resource, with the ETag it holds.
HeadResource ==
    \E path \in Paths, ifNoneMatch \in EtagChoices :
        \E r \in {HEAD(dataPointData, resource[path], ifNoneMatch)} :
            /\ last' = [Outcome("HEAD", r.err, r.etag)
                           EXCEPT !.reads = Len(r.reads),
                                  !.status = r.status]
            /\ UNCHANGED <<storeVars, ledgerVars, catalogVars, pending,
                           historyVars>>

\* The three contracts together, with every operation that changes state.
Next ==
    \/ WriteDataPoint
    \/ RegisterDataPoint
    \/ CollectRoyalties
    \/ ReenterCollectRoyalties
    \/ TransferDone
    \/ UpdatePublisherAddress
    \/ SetRoyaltyRate
    \/ CreateResource
    \/ UploadResource
    \/ DeleteResource

Spec == Init /\ [][Next]_vars

\* A site with its editors and readers, and the registry its uploads are
\* registered with.
NextSite ==
    \/ RegisterDataPoint
    \/ CreateResource
    \/ UploadResource
    \/ DeleteResource
    \/ ReadResource
    \/ HeadResource

SpecSite == Init /\ [][NextSite]_vars

\* The site with two paths and its editors.
PathsCreate == \E path \in SitePaths : CreateResourceAt(path)

PathsUpload == \E path \in SitePaths : UploadResourceAt(path)

PathsDelete == \E path \in SitePaths : DeleteResourceAt(path)

NextPaths ==
    \/ PathsCreate
    \/ PathsUpload
    \/ PathsDelete

SpecPaths == InitPaths /\ [][NextPaths]_vars

(* --------------------------- BaseWTTPSite actions ---------------------- *)
SitePUT ==
    \E account \in Accounts, path \in Paths, items \in Batches,
       p \in Publishers :
      \E v \in SiteValues(batchDue(CurrentLedger, items)) :
        \E r \in {PUT(CurrentSite, account, path, items, p, v)} :
            /\ nonReentrant(pending)
            /\ r.err = "" => WithinCaps(r.S, path, v, r.left)
            /\ SetSite(r.S)
            /\ RecordRegistration(CurrentLedger, r.S.L, p)
            /\ last' = [Outcome("PUT", r.err,
                                IF r.err = "" THEN Len(items) ELSE r.arg)
                           EXCEPT !.status = statusOf(r.err)]
            /\ UNCHANGED pending

SitePATCH ==
    \E account \in Accounts, path \in Paths, d \in Data, p \in Publishers :
      \E i \in IndexChoices(resource[path]),
         v \in SiteValues(royaltyDue(CurrentLedger, d)) :
        \E r \in {PATCH(CurrentSite, account, path, d, p, i, v)} :
            /\ nonReentrant(pending)
            /\ r.err = "" => WithinCaps(r.S, path, v, r.left)
            /\ SetSite(r.S)
            /\ RecordRegistration(CurrentLedger, r.S.L, p)
            /\ last' = [Outcome("PATCH", r.err, r.arg)
                           EXCEPT !.status = statusOf(r.err)]
            /\ UNCHANGED pending

SiteDELETE ==
    \E account \in Accounts, path \in Paths :
        \E r \in {DELETE(CurrentSite, account, path)} :
            /\ nonReentrant(pending)
            /\ SetSite(r.S)
            /\ last' = [Outcome("DELETE", r.err,
                                IF r.err = "" THEN Len(resource[path]) ELSE 0)
                           EXCEPT !.status = statusOf(r.err)]
            /\ UNCHANGED <<pending, historyVars>>

SiteDEFINE ==
    \E account \in Accounts, path \in Paths, h \in HeaderIds :
        \E r \in {defineHeader(CurrentSite, account, path, h)} :
            /\ nonReentrant(pending)
            /\ SetSite(r.S)
            /\ last' = [Outcome("DEFINE", r.err, IF r.err = "" THEN h ELSE 0)
                           EXCEPT !.status = statusOf(r.err)]
            /\ UNCHANGED <<pending, historyVars>>

SiteLOCATE ==
    \E account \in Accounts, path \in Paths :
      \E s \in RangeEnds(Len(resource[path])),
         e \in RangeEnds(Len(resource[path])) :
        \E r \in {locate(CurrentSite, account, path, Range(s, e))} :
            /\ last' = [Outcome("LOCATE", r.err,
                                IF r.err = "" THEN r.totalSize ELSE r.arg)
                           EXCEPT !.reads = Len(r.dataPoints),
                                  !.status = statusOf(r.err)]
            /\ UNCHANGED <<storeVars, ledgerVars, catalogVars, pending,
                           historyVars>>

\* A site behind its access control: editors, admins and the public call
\* its methods.
NextAccess ==
    \/ SitePUT
    \/ SitePATCH
    \/ SiteDELETE
    \/ SiteDEFINE
    \/ SiteLOCATE

SpecAccess == Init /\ [][NextAccess]_vars

(* --------------------------- WTTP Gateway actions ---------------------- *)
\* The chunks a gateway reader finds on a site: up to MaxLocated chunks of
\* up to MaxChunkLen bytes each.
ChunkData == UNION {[1..n -> Bytes] : n \in 1..MaxChunkLen}

Layouts == UNION {[1..n -> ChunkData] : n \in 0..MaxLocated}

ChunkAddresses == {calculateAddress(d) : d \in ChunkData} \cup {ZeroHash}

\* The site after the chunks of `layout` were appended to the first path
\* one by one, each registered without a publisher.
InitGateway ==
    \E layout \in Layouts :
        LET points == [i \in 1..Len(layout) |-> calculateAddress(layout[i])]
            stored == {points[i] : i \in 1..Len(layout)}
        IN
        /\ dataPointData =
              [a \in ChunkAddresses |->
                  IF a \in stored
                  THEN CHOOSE d \in ChunkData : calculateAddress(d) = a
                  ELSE <<>>]
        /\ dataPointRoyalties =
              [a \in ChunkAddresses |-> [publisher |-> ZeroAddress, gasUsed |-> 0]]
        /\ royaltyRate = 1
        /\ publisherBalance = [p \in Accounts |-> 0]
        /\ protocolRetained = 0
        /\ contractFunds = 0
        /\ resource = [p \in Paths |-> IF p = 1 THEN points ELSE <<>>]
        /\ metadata =
              [p \in Paths |->
                  IF p = 1 /\ layout # <<>>
                  THEN [size |-> totalSize(dataPointData, points),
                        version |-> Len(layout), header |-> 0]
                  ELSE ZeroMetadata]
        /\ pending = <<>>
        /\ totalReceived = 0
        /\ totalCredited = [p \in Accounts |-> 0]
        /\ totalTransferred = [p \in Accounts |-> 0]
        /\ waived = stored
        /\ last = Outcome("init", "", 0)

GatewayLOCATE ==
    \E path \in Paths :
      \E s \in RangeEnds(Len(resource[path])),
         e \in RangeEnds(Len(resource[path])) :
        \E r \in {LOCATE(dataPointData, resource[path], Range(s, e))} :
            /\ last' = Outcome("LOCATE", r.err,
                               IF r.err = "" THEN Len(r.dataPoints) ELSE r.arg)
            /\ UNCHANGED <<storeVars, ledgerVars, catalogVars, pending,
                           historyVars>>

\* Chunk ranges used with a byte range: all chunks, all but the first, all
\* but the last.
ChunkRangeChoices == {Range(0, 0), Range(1, -1), Range(0, -2)}

\* Mutant: the gateway counts the requests of a path in its metadata.
GatewayGETCountsRequests ==
    \E path \in Paths, rc \in ChunkRangeChoices :
      \E s \in RangeEnds(metadata[path].size),
         e \in RangeEnds(metadata[path].size) :
        \E r \in {GET(dataPointData, resource[path], rc, Range(s, e))} :
            /\ last' = [Outcome("GET", r.err,
                                IF r.err = "" THEN Len(r.data) ELSE r.arg)
                           EXCEPT !.reads = Len(r.reads),
                                  !.status = responseStatus(dataPointData,
                                                            resource[path], r)]
            /\ metadata' = [metadata EXCEPT ![path].version = @ + 1]
            /\ UNCHANGED <<storeVars, ledgerVars, resource, pending,
                           historyVars>>

GatewayGET ==
    \E path \in Paths, rc \in ChunkRangeChoices :
      \E s \in RangeEnds(metadata[path].size),
         e \in RangeEnds(metadata[path].size) :
        \E r \in {GET(dataPointData, resource[path], rc, Range(s, e))} :
            /\ last' = [Outcome("GET", r.err,
                                IF r.err = "" THEN Len(r.data) ELSE r.arg)
                           EXCEPT !.reads = Len(r.reads),
                                  !.status = responseStatus(dataPointData,
                                                            resource[path], r)]
            /\ UNCHANGED <<storeVars, ledgerVars, catalogVars, pending,
                           historyVars>>

\* A client streams a resource in stretches of chunkSize bytes.
GatewayStream ==
    \E path \in Paths, chunkSize \in 1..MaxChunkSize :
        \E r \in {streamLargeFile(dataPointData, resource[path], chunkSize)} :
            /\ last' = [Outcome("stream", r.err, Len(r.data))
                           EXCEPT !.reads = r.requests]
            /\ UNCHANGED <<storeVars, ledgerVars, catalogVars, pending,
                           historyVars>>

NextGateway ==
    \/ GatewayLOCATE
    \/ GatewayGET
    \/ GatewayStream

SpecGateway == InitGateway /\ [][NextGateway]_vars

(* --------------------- calls from the current state -------------------- *)
\* The outcomes of the registerDataPoint calls a payer can send in the
\* current state: any data, any publisher, and nothing, one unit short of
\* the royalty, the royalty or one unit more as payment.
RegisterCalls ==
    UNION {{registerDataPoint(CurrentLedger, d, p, v) :
               p \in Publishers,
               v \in PayChoices(royaltyDue(CurrentLedger, d))
                        \cup {royaltyDue(CurrentLedger, d) + 1}} :
           d \in Data}

\* The outcomes of the collectRoyalties calls of the current state: any
\* caller, any recipient, any amount up to one unit above the balance.
CollectCalls ==
    UNION {{collectRoyalties(CurrentLedger, c, amt, w) :
               w \in Accounts, amt \in 0..(publisherBalance[c] + 1)} :
           c \in Accounts}

\* The outcomes of the updatePublisherAddress calls of the current state.
UpdateCalls ==
    {updatePublisherAddress(CurrentLedger, c, a, p) :
        c \in Accounts, a \in Addresses, p \in Publishers}

\* Every call of the registry and of the storage from the current state,
\* with its name, its error and the ledger it leaves.
LedgerCalls ==
    {[op |-> "registerDataPoint", err |-> r.err, L |-> r.L] :
        r \in RegisterCalls}
    \cup {[op |-> "collectRoyalties", err |-> r.err, L |-> r.L] :
             r \in CollectCalls}
    \cup {[op |-> "updatePublisherAddress", err |-> r.err, L |-> r.L] :
             r \in UpdateCalls}
    \cup {[op |-> "setRoyaltyRate", err |-> "",
           L |-> [CurrentLedger EXCEPT !.rate = rate]] : rate \in Rates}
    \cup {[op |-> "writeDataPoint", err |-> w.err,
           L |-> [CurrentLedger EXCEPT !.dpd = w.dpd]] :
             w \in {writeDataPoint(dataPointData, d) : d \in Data}}

\* Every chunk write, bulk upload and deletion a site can run on `path` in
\* the current state, with its name, its error and the site it leaves.
SiteCalls(path) ==
    UNION {{[op |-> "createResource", err |-> c.err, S |-> c.S] :
               c \in {createResource(CurrentSite, path, d, p, i, v) :
                         p \in Publishers,
                         i \in IndexChoices(resource[path]),
                         v \in SiteValues(royaltyDue(CurrentLedger, d))}} :
           d \in Data}
    \cup UNION {{[op |-> "uploadResource", err |-> u.err, S |-> u.S] :
                    u \in {uploadResource(CurrentSite, path, items, p, v) :
                              p \in Publishers,
                              v \in SiteValues(batchDue(CurrentLedger, items))}} :
                items \in Batches}
    \cup {[op |-> "deleteResource", err |-> r.err, S |-> r.S] :
             r \in {deleteResource(CurrentSite, path)}}

(* ======================= DataPointStorage claims ====================== *)

\* C1 as stated: in every reachable state a write of non-empty bytes b
\* returns calculateAddress(b) and a read of that address then gives b.
C1_WriteAlwaysReturns ==
    \A d \in NonEmptyData :
        LET w == writeDataPoint(dataPointData, d) IN
        /\ w.err = ""
        /\ w.addr = calculateAddress(d)
        /\ readDataPoint(w.dpd, w.addr) = d

\* C1 amended: a write of non-empty bytes b returns exactly
\* calculateAddress(b) when that address is free and is rejected with
\* DataExists naming calculateAddress(b) when it is occupied; either way a
\* read of that address afterwards gives b back with size Len(b). The
\* address is a function of the bytes alone.
C1_WriteRoundTrip ==
    \A d \in NonEmptyData :
        LET w == writeDataPoint(dataPointData, d) IN
        /\ w.err = (IF dataPointSize(dataPointData, calculateAddress(d)) = 0
                    THEN "" ELSE "DataExists")
        /\ w.addr = calculateAddress(d)
        /\ readDataPoint(w.dpd, w.addr) = d
        /\ dataPointSize(w.dpd, w.addr) = Len(d)

C1_Witness ==
    /\ last.op = "writeDataPoint"
    /\ last.err = ""
    /\ \E d \in NonEmptyData :
          /\ Len(d) = MaxLen
          /\ last.arg = calculateAddress(d)
          /\ readDataPoint(dataPointData, last.arg) = d

\* C2 as stated: the second of two writes of the same bytes succeeds as a
\* no-op, returns the same address and changes no stored bytes.
C2_SecondWriteSucceeds ==
    [][ (/\ last.op = "writeDataPoint" /\ last.err = ""
         /\ last'.op = "writeDataPoint" /\ last'.arg = last.arg)
        => /\ last'.err = ""
           /\ dataPointData' = dataPointData
      ]_vars

\* C2 amended: the second of two writes of the same bytes is rejected with
\* DataExists naming the same address, and the stored bytes and size at
\* every address stay as they are.
C2_SecondWriteRejected ==
    \A d \in NonEmptyData :
        LET first == writeDataPoint(dataPointData, d) IN
        first.err = ""
        => LET second == writeDataPoint(first.dpd, d) IN
           /\ second.err = "DataExists"
           /\ second.addr = first.addr
           /\ second.dpd = first.dpd
           /\ \A a \in Addresses :
                 /\ readDataPoint(second.dpd, a) = readDataPoint(first.dpd, a)
                 /\ dataPointSize(second.dpd, a)
                       = dataPointSize(first.dpd, a)

C2_Witness ==
    /\ last.op = "writeDataPoint"
    /\ last.err = "DataExists"
    /\ dataPointSize(dataPointData, last.arg) = MaxLen

\* C3: a write of data whose address already holds a record fails with
\* DataExists(address) and leaves the store unchanged.
C3_OccupiedAddressRejected ==
    \A d \in NonEmptyData :
        dataPointSize(dataPointData, calculateAddress(d)) # 0
        => LET w == writeDataPoint(dataPointData, d) IN
           /\ w.err = "DataExists"
           /\ w.addr = calculateAddress(d)
           /\ w.dpd = dataPointData

C3_Witness ==
    /\ last.op = "writeDataPoint"
    /\ last.err = "DataExists"
    /\ StoredCount(dataPointData) = MaxStored

\* C4: once an address holds a record, every operation of every contract
\* leaves its bytes and its size as they are: whatever call of the storage,
\* the registry or the site comes next, a write, a registration, a
\* withdrawal, a publisher update, a change of the rate, a chunk write, a
\* bulk upload or a deletion, the address reads the same after it.
C4_RecordsImmutable ==
    \A a \in Addresses :
        dataPointSize(dataPointData, a) # 0
        => \A L \in {call.L : call \in LedgerCalls}
                     \cup {call.S.L :
                              call \in UNION {SiteCalls(path) : path \in Paths}} :
              /\ readDataPoint(L.dpd, a) = readDataPoint(dataPointData, a)
              /\ dataPointSize(L.dpd, a) = dataPointSize(dataPointData, a)

C4_Witness ==
    /\ last.op = "deleteResource"
    /\ last.arg = MaxChunks
    /\ StoredCount(dataPointData) = MaxStored
    /\ \A path \in Paths : resource[path] = <<>>
    /\ \E p \in Accounts : publisherBalance[p] > 0

(* ======================= DataPointRegistry claims ===================== *)
RoyaltyOf(a) == getDataPointRoyalty(dataPointRoyalties, royaltyRate, a)

HasPublisher(a) == dataPointRoyalties[a].publisher # ZeroAddress

\* C5: re-registering content that has a publisher and a royalty > 0 with
\* a payment below the royalty, zero included, fails with
\* InsufficientRoyaltyPayment(owed) and applies nothing.
C5_InsufficientPaymentRejected ==
    \A d \in NonEmptyData, p \in Publishers :
        LET a == calculateAddress(d) IN
        (/\ dataPointSize(dataPointData, a) # 0
         /\ HasPublisher(a)
         /\ RoyaltyOf(a) > 0)
        => \A v \in 0..(RoyaltyOf(a) - 1) :
              LET r == registerDataPoint(CurrentLedger, d, p, v) IN
              /\ r.err = "InsufficientRoyaltyPayment"
              /\ r.arg = RoyaltyOf(a)
              /\ r.L = CurrentLedger

C5_Witness ==
    /\ last.op = "registerDataPoint"
    /\ last.err = "InsufficientRoyaltyPayment"
    /\ last.arg = GasPerByte * MaxLen * MaxRate
    /\ \E p \in Accounts : publisherBalance[p] > 0

\* A step that re-registers stored content, is charged the royalty and
\* pays exactly the royalty.
PaidExactly ==
    /\ last'.op = "registerDataPoint"
    /\ last'.err = ""
    /\ ~last'.new
    /\ last'.arg > 0
    /\ totalReceived' - totalReceived = last'.arg

C7_WaivedStaysFree ==
    \A a \in waived :
        /\ ~HasPublisher(a)
        /\ RoyaltyOf(a) = 0
        /\ \A p \in Publishers :
              LET r == registerDataPoint(CurrentLedger, dataPointData[a], p, 0)
              IN r.err = "" /\ r.addr = a /\ r.paid = 0

C7_Witness ==
    /\ last.op = "registerDataPoint"
    /\ last.err = ""
    /\ ~last.new
    /\ last.arg = 0
    /\ waived # {}
    /\ StoredAddresses(dataPointData) = waived

\* C8 as stated: the royalty owed for an address with a publisher has the
\* same value in every later state.
C8_RoyaltyNeverChanges ==
    [][ \A a \in Addresses :
          HasPublisher(a) => RoyaltyOf(a)' = RoyaltyOf(a) ]_vars

\* C8 amended: the gas figure captured at the first registration never
\* changes and the royalty owed is that figure times the current royalty
\* rate; registrations, withdrawals, writes and publisher updates leave the
\* royalty as it is, only the owner's change of the rate changes it.
C8_RoyaltyFollowsRate ==
    \A a \in Addresses :
        HasPublisher(a)
        => /\ dataPointRoyalties[a].gasUsed = gasUsedFor(dataPointData[a])
           /\ RoyaltyOf(a) = dataPointRoyalties[a].gasUsed * royaltyRate
           /\ \A call \in LedgerCalls :
                 /\ call.L.roy[a].gasUsed = dataPointRoyalties[a].gasUsed
                 /\ getDataPointRoyalty(call.L.roy, call.L.rate, a)
                       = dataPointRoyalties[a].gasUsed * call.L.rate
                 /\ call.op # "setRoyaltyRate"
                       => getDataPointRoyalty(call.L.roy, call.L.rate, a)
                             = RoyaltyOf(a)

C8_Witness ==
    /\ last.op = "updatePublisherAddress"
    /\ last.err = ""
    /\ royaltyRate > 1
    /\ totalReceived > 0
    /\ \E a \in Addresses :
          /\ HasPublisher(a)
          /\ RoyaltyOf(a) = gasUsedFor(dataPointData[a]) * royaltyRate

\* C9: collectRoyalties fails with InsufficientBalance and changes no
\* balance when the amount exceeds the caller's balance; otherwise it takes
\* exactly the amount off the caller's balance and starts a transfer of
\* exactly the amount to withdrawTo; no balance is ever negative.
C9_CollectChecked ==
    \A c \in Accounts, w \in Accounts :
        /\ publisherBalance[c] >= 0
        /\ \A amt \in 0..(publisherBalance[c] + 1) :
              LET r == collectRoyalties(CurrentLedger, c, amt, w) IN
              IF amt > publisherBalance[c]
              THEN /\ r.err = "InsufficientBalance"
                   /\ r.L = CurrentLedger
                   /\ r.transfer = <<>>
              ELSE /\ r.err = ""
                   /\ r.L.bal = [publisherBalance EXCEPT ![c] = @ - amt]
                   /\ r.L.bal[c] >= 0
                   /\ r.transfer = <<[publisher |-> c, to |-> w,
                                      amount |-> amt]>>

C9_Witness ==
    /\ last.op = "collectRoyalties"
    /\ last.err = ""
    /\ pending # <<>>
    /\ pending[1].to # pending[1].publisher
    /\ pending[1].amount = last.arg
    /\ publisherBalance[pending[1].publisher] > 0

\* Value on its way out on behalf of publisher p.
InFlight(p) ==
    IF pending # <<>> /\ pending[1].publisher = p THEN pending[1].amount ELSE 0

\* C10: for every publisher, what has been transferred out on their behalf,
\* the transfer in progress included, never exceeds what was credited to
\* them, also while the recipient re-enters collectRoyalties.
C10_NoDoubleSpend ==
    \A p \in Accounts :
        /\ totalTransferred[p] + InFlight(p) <= totalCredited[p]
        /\ publisherBalance[p] = totalCredited[p] - totalTransferred[p] - InFlight(p)

C10_Witness ==
    /\ last.op = "reenter"
    /\ pending # <<>>
    /\ totalTransferred[pending[1].publisher] > 0
    /\ InFlight(pending[1].publisher) > 0
    /\ totalTransferred[pending[1].publisher] + InFlight(pending[1].publisher)
          = totalCredited[pending[1].publisher]

\* C11: a balance goes down only by a collectRoyalties call of its own
\* publisher: a withdrawal by caller c leaves the balance of every other
\* publisher as it is, whoever the recipient is; an update of a publisher
\* address changes no balance; any other change of a balance is a royalty
\* credit of a registration.
C11_OnlyOwnBalanceDebited ==
    /\ \A c \in Accounts, w \in Accounts :
          \A amt \in 0..(publisherBalance[c] + 1) :
             LET r == collectRoyalties(CurrentLedger, c, amt, w) IN
             /\ \A y \in Accounts \ {c} : r.L.bal[y] = publisherBalance[y]
             /\ r.L.bal[c] <= publisherBalance[c]
             /\ r.L.bal[c] < publisherBalance[c]
                   => /\ r.err = ""
                      /\ r.transfer # <<>>
                      /\ r.transfer[1].publisher = c
                      /\ publisherBalance[c] - r.L.bal[c]
                            = r.transfer[1].amount
    /\ \A c \in Accounts, a \in Addresses, p \in Publishers :
          updatePublisherAddress(CurrentLedger, c, a, p).L.bal
              = publisherBalance
    /\ \A r \in RegisterCalls, y \in Accounts :
          /\ r.L.bal[y] >= publisherBalance[y]
          /\ r.L.bal[y] > publisherBalance[y]
                => /\ r.err = ""
                   /\ r.L.bal[y] - publisherBalance[y] = publisherShare(r.paid)
    /\ \A call \in LedgerCalls, y \in Accounts :
          call.L.bal[y] < publisherBalance[y]
          => call.op = "collectRoyalties" /\ call.err = ""

\* A caller without a balance asked for one unit while another publisher
\* holds royalties. The call failed and the royalties are still there.
C11_Witness ==
    /\ last.op = "collectRoyalties"
    /\ last.err = "InsufficientBalance"
    /\ last.arg = 1
    /\ \E y \in Accounts : publisherBalance[y] > 1

\* C12 as stated: a failed updatePublisherAddress reports Unauthorized when
\* the caller is not the publisher of record and InvalidPublisher when the
\* new publisher is address(0).
C12_UnauthorizedReported ==
    [][ (last'.op = "updatePublisherAddress" /\ last'.err # "")
        => last'.err = (IF last'.arg = ZeroAddress THEN "InvalidPublisher"
                        ELSE "Unauthorized")
      ]_vars

\* C12 amended: updatePublisherAddress fails with InvalidPublisher unless
\* the caller is the current publisher of record of the address, and fails
\* with InvalidPublisher when the new publisher is address(0); a failed
\* call leaves every record as it is, a successful one names the new
\* publisher.
C12_InvalidPublisherReported ==
    \A c \in Accounts, a \in Addresses, p \in Publishers :
        LET r == updatePublisherAddress(CurrentLedger, c, a, p) IN
        /\ dataPointRoyalties[a].publisher # c
              => r.err = "InvalidPublisher" /\ r.L = CurrentLedger
        /\ p = ZeroAddress
              => r.err = "InvalidPublisher" /\ r.L = CurrentLedger
        /\ (dataPointRoyalties[a].publisher = c /\ p # ZeroAddress)
              => /\ r.err = ""
                 /\ r.L.roy[a].publisher = p
                 /\ \A b \in Addresses \ {a} :
                       r.L.roy[b] = dataPointRoyalties[b]
        /\ r.err \in {"", "InvalidPublisher"}
        /\ r.err # "" => r.L.roy = dataPointRoyalties

\* An account that is publisher of no stored address had its update
\* rejected.
C12_Witness ==
    /\ last.op = "updatePublisherAddress"
    /\ last.err = "InvalidPublisher"
    /\ last.arg \in Accounts
    /\ StoredCount(dataPointData) = MaxStored
    /\ \A a \in StoredAddresses(dataPointData) :
          /\ dataPointRoyalties[a].publisher # ZeroAddress
          /\ dataPointRoyalties[a].publisher # last.arg

\* C13 as stated: once a record exists for an address, its publisher and
\* its gas figure have the same values in every later state.
C13_RecordNeverChanges ==
    [][ \A a \in Addresses :
          HasPublisher(a) => dataPointRoyalties'[a] = dataPointRoyalties[a]
      ]_vars

\* C13 amended: once a record exists for an address it stays, and its gas
\* figure never changes; its publisher changes only by a successful
\* updatePublisherAddress, and never to address(0).
C13_RecordChangesByUpdateOnly ==
    \A a \in Addresses :
        HasPublisher(a)
        => \A call \in LedgerCalls :
              /\ call.L.roy[a].gasUsed = dataPointRoyalties[a].gasUsed
              /\ call.L.roy[a].publisher # ZeroAddress
              /\ call.L.roy[a].publisher # dataPointRoyalties[a].publisher
                    => /\ call.op = "updatePublisherAddress"
                       /\ call.err = ""

\* A record whose publisher was replaced after royalties had been credited
\* to the earlier publisher.
C13_Witness ==
    /\ last.op = "updatePublisherAddress"
    /\ last.err = ""
    /\ \E a \in StoredAddresses(dataPointData), q \in Accounts :
          /\ HasPublisher(a)
          /\ dataPointRoyalties[a].gasUsed = gasUsedFor(dataPointData[a])
          /\ totalCredited[q] > 0
          /\ dataPointRoyalties[a].publisher # q
          /\ \A b \in StoredAddresses(dataPointData) \ {a} : ~HasPublisher(b)

(* ======================== BaseWTTPStorage claims ====================== *)

C15_ReadChunksInclusive ==
    \A path \in Paths :
        LET chunks == resource[path]
            count == Len(chunks)
        IN
        /\ count > 0 =>
             \A s \in RangeEnds(count), e \in RangeEnds(count) :
               LET r == readResource(chunks, Range(s, e))
                   from == IF s < 0 THEN count + s ELSE s
                   to == IF e < 0 THEN count + e ELSE e
               IN
               IF s = 0 /\ e = 0
               THEN r.err = "" /\ r.dataPoints = chunks
               ELSE IF from < 0 \/ from > count - 1 \/ to < 0 \/ to > count - 1
               THEN r.err = "OutOfBounds" /\ r.dataPoints = <<>>
               ELSE from <= to =>
                      /\ r.err = ""
                      /\ Len(r.dataPoints) = to - from + 1
                      /\ \A k \in 1..(to - from + 1) :
                             r.dataPoints[k] = chunks[from + k]
        /\ \A s \in RangeEnds(count), e \in RangeEnds(count) :
              LET loc == LOCATE(dataPointData, chunks, Range(s, e)) IN
              IF loc.err = ""
              THEN Len(loc.dataPoints) \in 1..count
              ELSE /\ loc.err \in {"NotFound", "OutOfBounds"}
                   /\ loc.arg = count

\* A resource of three chunks of which a LOCATE returned two, the last two
\* being what the range {-2, -1} selects.
C15_Witness ==
    \E path \in Paths :
        /\ Len(resource[path]) = 3
        /\ resource[path][1] # resource[path][3]
        /\ last.op = "LOCATE" /\ last.err = "" /\ last.arg = 2
        /\ readResource(resource[path], Range(-2, -1)).dataPoints
              = SubSeq(resource[path], 2, 3)

\* C16: after a successful bulk upload of n chunks to a path, the chunk
\* array of the path is exactly the n addresses of the chunks, in the order
\* given from index 0 on; nothing of the array that was there before, which
\* may have been longer, remains.
C16_UploadReplaces ==
    \A path \in Paths, items \in Batches, p \in Publishers :
        LET r == uploadResource(CurrentSite, path, items, p,
                                batchDue(CurrentLedger, items))
        IN
        r.err = "" =>
            /\ r.S.res[path] =
                  [i \in 1..Len(items) |-> calculateAddress(items[i])]
            /\ Len(r.S.res[path]) = Len(items)
            /\ \A i \in 1..Len(items) :
                   dataPointSize(r.S.L.dpd, r.S.res[path][i]) # 0
            /\ r.S.meta[path].size = totalSize(r.S.L.dpd, r.S.res[path])
            /\ \A other \in Paths \ {path} :
                   r.S.res[other] = resource[other]

\* An upload of one chunk has replaced an array that held two: the version
\* counts the two chunks written before and the upload.
C16_Witness ==
    \E path \in Paths :
        /\ last.op = "uploadResource" /\ last.err = "" /\ last.arg = 1
        /\ Len(resource[path]) = 1
        /\ metadata[path].version = 3

ExampleStore ==
    [a \in 1..3 |->
        [i \in 1..(IF a = 3 THEN 500 ELSE 1000) |-> (a + i) % (ByteMax + 1)]]

ExampleGET == GET(ExampleStore, <<1, 2, 3>>, Range(0, 0), Range(800, 1700))

\* C18 as stated: for a resource of three chunks of 1000, 1000 and 500
\* bytes, the byte range {800, 1700} returns exactly 901 bytes, the tail of
\* chunk 0, all of chunk 1 and the head of chunk 2, with exactly three chunk
\* reads.
C18_ThreeChunkReads ==
    [](/\ ExampleGET.err = ""
       /\ Len(ExampleGET.data) = 901
       /\ Len(ExampleGET.reads) = 3
       /\ ExampleGET.reads = <<1, 2, 3>>)

\* C18 (amended): for a resource of three chunks of 1000, 1000 and 500
\* bytes, the byte range {800, 1700} returns exactly 901 bytes, the last 200
\* bytes of chunk 0 and the first 701 bytes of chunk 1, with exactly two
\* chunk reads; chunk 2, which starts at byte 2000, is not read. In every
\* resource of three chunks, a byte range from inside the first chunk to
\* inside the second returns the bytes of the span with reads of the first
\* two chunks only.
C18_TwoChunkReads ==
    /\ ExampleGET.err = ""
    /\ Len(ExampleGET.data) = 901
    /\ ExampleGET.data = SubSeq(ExampleStore[1], 801, 1000)
                            \o SubSeq(ExampleStore[2], 1, 701)
    /\ ExampleGET.reads = <<1, 2>>
    /\ \A path \in Paths :
          LET chunks == resource[path]
              sizes == sizesOf(dataPointData, chunks)
          IN
          Len(chunks) = 3 =>
            \A s \in 0..(sizes[1] - 1),
               e \in sizes[1]..(sizes[1] + sizes[2] - 1) :
              LET r == GET(dataPointData, chunks, Range(0, 0), Range(s, e)) IN
              /\ r.err = ""
              /\ Len(r.data) = e - s + 1
              /\ r.reads = SubSeq(chunks, 1, 2)

\* The example at the scale of the model: chunks of 2, 2 and 1 bytes, of
\* which a GET returned 2 bytes with two chunk reads, the range {1, 2}
\* from the tail of chunk 0 into chunk 1.
C18_Witness ==
    \E path \in Paths :
        /\ sizesOf(dataPointData, resource[path]) = <<2, 2, 1>>
        /\ last.op = "GET" /\ last.err = "" /\ last.arg = 2 /\ last.reads = 2
        /\ GET(dataPointData, resource[path], Range(0, 0), Range(1, 2)).reads
              = SubSeq(resource[path], 1, 2)

\* C19: for every resource and every byte range that can be satisfied, with
\* inclusive ends and negative ends counted from the end of the content, a
\* GET returns exactly the bytes of that span of the content, the chunks
\* concatenated in index order, and reads from storage exactly the chunks
\* that overlap the span and no others: k reads for a span over k chunks.
C19_ExactSpanAndReads ==
    \A path \in Paths, rc \in ChunkRangeChoices :
        LET loc == LOCATE(dataPointData, resource[path], rc)
            points == loc.dataPoints
            whole == contentOf(dataPointData, points)
            total == Len(whole)
            startOf(i) == totalSize(dataPointData, SubSeq(points, 1, i - 1))
            endOf(i) == startOf(i) + dataPointSize(dataPointData, points[i]) - 1
        IN
        loc.err = "" =>
          \A s \in RangeEnds(total), e \in RangeEnds(total) :
            LET r == GET(dataPointData, resource[path], rc, Range(s, e))
                from == IF s < 0 THEN total + s ELSE s
                to == IF e < 0 THEN total + e ELSE e
                over == {i \in 1..Len(points) :
                            startOf(i) <= to /\ endOf(i) >= from}
            IN
            (~(s = 0 /\ e = 0) /\ 0 <= from /\ from <= to /\ to <= total - 1)
            =>
            /\ r.err = ""
            /\ r.data = SubSeq(whole, from + 1, to + 1)
            /\ over # {}
            /\ Len(r.reads) = Cardinality(over)
            /\ Len(r.reads) \in 1..Len(resource[path])
            /\ r.reads = SubSeq(points,
                                CHOOSE i \in over : \A j \in over : i <= j,
                                CHOOSE i \in over : \A j \in over : j <= i)

\* Of a resource of three chunks of 1, 2 and 1 bytes a GET returned two
\* bytes with a single chunk read: the middle chunk alone.
C19_Witness ==
    \E path \in Paths :
        /\ sizesOf(dataPointData, resource[path]) = <<1, 2, 1>>
        /\ resource[path][2] # resource[path][1]
        /\ last.op = "GET" /\ last.err = "" /\ last.arg = 2 /\ last.reads = 1
        /\ GET(dataPointData, resource[path], Range(0, 0), Range(1, 2)).reads
              = <<resource[path][2]>>

\* C20: the byte range {0, 0} over all chunks returns the full content of
\* the resource, the bytes of all its chunks in index order, identical to
\* reading each chunk on its own from storage and concatenating the results.
C20_WholeContent ==
    \A path \in Paths :
        LET chunks == resource[path]
            r == GET(dataPointData, chunks, Range(0, 0), Range(0, 0))
            startOf(i) == totalSize(dataPointData, SubSeq(chunks, 1, i - 1))
        IN
        chunks # <<>> =>
            /\ r.err = ""
            /\ r.data = contentOf(dataPointData, chunks)
            /\ Len(r.data) = metadata[path].size
            /\ r.reads = chunks
            /\ \A i \in 1..Len(chunks) :
                   SubSeq(r.data, startOf(i) + 1,
                          startOf(i) + dataPointSize(dataPointData, chunks[i]))
                      = readDataPoint(dataPointData, chunks[i])

\* A GET returned the five bytes of a resource of three chunks with three
\* chunk reads, the first chunk having more than one byte.
C20_Witness ==
    \E path \in Paths :
        /\ Len(resource[path]) = 3
        /\ dataPointSize(dataPointData, resource[path][1]) = 2
        /\ metadata[path].size = 5
        /\ last.op = "GET" /\ last.err = "" /\ last.arg = 5 /\ last.reads = 3
        /\ GET(dataPointData, resource[path], Range(0, 0), Range(0, 0)).data
              = contentOf(dataPointData, resource[path])

(* ========================= gateway response claims ==================== *)
\* C21: a GET whose resolved byte range reaches beyond the total size of the
\* located chunks, or starts before their first byte, fails as out of
\* bounds (status 416) and reads no data point from storage.
C21_BeyondTotalRejected ==
    \A path \in Paths, rc \in ChunkRangeChoices :
        LET loc == LOCATE(dataPointData, resource[path], rc) IN
        \A s \in RangeEnds(loc.totalSize), e \in RangeEnds(loc.totalSize) :
            LET r == GET(dataPointData, resource[path], rc, Range(s, e))
                from == IF s < 0 THEN loc.totalSize + s ELSE s
                to == IF e < 0 THEN loc.totalSize + e ELSE e
            IN
            /\ (/\ loc.err = ""
                /\ (to > loc.totalSize - 1 \/ from > loc.totalSize - 1
                       \/ from < 0 \/ to < 0))
               =>
               /\ r.err = "OutOfBounds"
               /\ responseStatus(dataPointData, resource[path], r) = 416
               /\ r.arg = loc.totalSize
               /\ r.reads = <<>>
               /\ r.data = <<>>
            /\ r.err # "" => r.reads = <<>>

\* A GET on a resource of three chunks was rejected as out of bounds and
\* read nothing; the byte just behind the content is such a range.
C21_Witness ==
    \E path \in Paths :
        /\ Len(resource[path]) = 3
        /\ last.op = "GET" /\ last.err = "OutOfBounds" /\ last.reads = 0
        /\ last.arg = metadata[path].size
        /\ GET(dataPointData, resource[path], Range(0, 0),
               Range(0, metadata[path].size)).err = "OutOfBounds"

\* C22: a GET that succeeds reports 200 (OK) exactly when it returns the
\* full content of the resource and 206 (Partial Content) exactly when the
\* byte range is narrower than the total size. For the single chunk
\* "Hello, ESP!" of 11 bytes, the byte range {0, 4} returns the 5 bytes
\* "Hello" with 206 and the byte range {0, 0} all 11 bytes with 200.
C22_StatusOfContent ==
    /\ LET hello == <<72, 101, 108, 108, 111, 44, 32, 69, 83, 80, 33>>
           store == [a \in {1} |-> hello]
           part == GET(store, <<1>>, Range(0, 0), Range(0, 4))
           full == GET(store, <<1>>, Range(0, 0), Range(0, 0))
       IN
       /\ part.err = "" /\ part.data = <<72, 101, 108, 108, 111>>
       /\ responseStatus(store, <<1>>, part) = 206
       /\ full.err = "" /\ full.data = hello /\ Len(full.data) = 11
       /\ responseStatus(store, <<1>>, full) = 200
    /\ \A path \in Paths :
          LET chunks == resource[path]
              total == totalSize(dataPointData, chunks)
          IN
          \A s \in RangeEnds(total), e \in RangeEnds(total) :
              LET r == GET(dataPointData, chunks, Range(0, 0), Range(s, e))
                  code == responseStatus(dataPointData, chunks, r)
                  whole == normalizeRange(Range(s, e), total)
              IN
              r.err = "" =>
                  /\ code \in {200, 206}
                  /\ code = 200 <=> r.data = contentOf(dataPointData, chunks)
                  /\ code = 200 <=> Len(r.data) = metadata[path].size
                  /\ code = 206 <=> whole.end - whole.start + 1 < total

\* Of a resource of a single chunk of two bytes a GET returned one byte
\* with status 206; the range {0, 0} returns both bytes with status 200.
C22_Witness ==
    \E path \in Paths :
        /\ Len(resource[path]) = 1 /\ metadata[path].size = 2
        /\ last.op = "GET" /\ last.err = "" /\ last.arg = 1
        /\ last.status = 206
        /\ responseStatus(dataPointData, resource[path],
               GET(dataPointData, resource[path], Range(0, 0), Range(0, 0)))
              = 200

\* C23 as stated: a HEAD with the ETag of the resource reports 304 and
\* reads no chunk; after any chunk mutation of the path the ETag the
\* resource had before no longer matches.
C23_AnyMutationChangesEtag ==
    [][\A path \in Paths :
          (/\ resource[path] # <<>>
           /\ metadata'[path].version # metadata[path].version)
          => HEAD(dataPointData', resource'[path],
                  calculateEtag(dataPointData, resource[path])).status # 304
      ]_vars

\* C23 (amended): a HEAD with the ETag of the resource reports 304 and
\* reads no chunk; after a chunk mutation of the path the ETag the resource
\* had before still matches exactly when the path holds a resource whose
\* content, the bytes of its chunks in order, is what it was.
C23_ContentChangeChangesEtag ==
    \A path \in Paths :
        resource[path] # <<>> =>
          /\ \A held \in EtagChoices :
                LET r == HEAD(dataPointData, resource[path], held) IN
                /\ r.err = "" /\ r.reads = <<>>
                /\ r.status = 304
                      <=> held = calculateEtag(dataPointData, resource[path])
                /\ r.status \in {200, 304}
          /\ calculateEtag(dataPointData, resource[path]) \in EtagChoices
          /\ \A call \in SiteCalls(path) :
                call.S.meta[path].version # metadata[path].version
                => (HEAD(call.S.L.dpd, call.S.res[path],
                         calculateEtag(dataPointData, resource[path])).status
                       = 304
                    <=> /\ call.S.res[path] # <<>>
                        /\ contentOf(call.S.L.dpd, call.S.res[path])
                              = contentOf(dataPointData, resource[path]))

\* A HEAD with the ETag of a resource that was written more than once was
\* answered with 304 and without a chunk read.
C23_Witness ==
    \E path \in Paths :
        /\ metadata[path].version >= 2
        /\ last.op = "HEAD" /\ last.status = 304 /\ last.reads = 0
        /\ last.arg = calculateEtag(dataPointData, resource[path])

(* ===================== DataPointStorage size claims =================== *)
\* C30 as stated: a write of empty data is rejected with InvalidData and
\* leaves the store as it is; the size of an address is positive exactly
\* when a record exists there and 0 otherwise; a read of an address whose
\* size is 0 fails with NotFound.
C30_ReadOfAbsentFails ==
    [][last'.op = "readDataPoint" /\ last'.arg = 0
          => last'.err = "NotFound"]_vars

\* C30 (amended): a write of empty data is rejected with InvalidData and
\* leaves the store as it is, so every record a write or a registration
\* creates has a positive size and keeps it; the size of an address is
\* positive exactly when a record exists there and 0 otherwise; a read of an
\* address whose size is 0 does not fail: it returns no bytes.
C30_SizeZeroMeansAbsent ==
    /\ writeDataPoint(dataPointData, <<>>).err = "InvalidData"
    /\ writeDataPoint(dataPointData, <<>>).dpd = dataPointData
    /\ \A a \in Addresses :
          /\ dataPointSize(dataPointData, a) > 0
                <=> \E d \in NonEmptyData :
                        /\ calculateAddress(d) = a
                        /\ readDataPoint(dataPointData, a) = d
          /\ dataPointSize(dataPointData, a) = 0
                <=> readDataPoint(dataPointData, a) = <<>>
    /\ \A d \in Data :
          LET w == writeDataPoint(dataPointData, d) IN
          /\ w.err = "" => dataPointSize(w.dpd, w.addr) > 0
          /\ w.err = "InvalidData" => w.dpd = dataPointData
          /\ \A a \in Addresses :
                dataPointSize(dataPointData, a) > 0
                => dataPointSize(w.dpd, a) = dataPointSize(dataPointData, a)
    /\ \A r \in RegisterCalls, a \in Addresses :
          dataPointSize(dataPointData, a) > 0
          => dataPointSize(r.L.dpd, a) = dataPointSize(dataPointData, a)

\* With a record in the store, a read of an address that holds none
\* returned without an error and reported the size 0.
C30_Witness ==
    /\ last.op = "readDataPoint" /\ last.err = "" /\ last.arg = 0
    /\ StoredCount(dataPointData) >= 1
    /\ \E a \in Addresses : dataPointSize(dataPointData, a) = 0
    /\ writeDataPoint(dataPointData, <<>>).err = "InvalidData"

C25_AllOrNothing ==
    /\ \A path \in Paths, p \in Publishers :
          /\ \A items \in Batches :
               \A v \in SiteValues(batchDue(CurrentLedger, items)) :
                 LET u == uploadResource(CurrentSite, path, items, p, v) IN
                 u.err # "" => u.S = CurrentSite /\ u.left = v
          /\ \A d \in Data, i \in IndexChoices(resource[path]) :
               \A v \in SiteValues(royaltyDue(CurrentLedger, d)) :
                 LET c == createResource(CurrentSite, path, d, p, i, v) IN
                 c.err # "" => c.S = CurrentSite /\ c.left = v
    /\ \A r \in RegisterCalls : r.err # "" => r.L = CurrentLedger

\* A bulk upload was refused for an insufficient royalty payment in a state
\* where a batch of two chunks sent without payment fails on its second
\* chunk, the first being new to the storage and free of charge.
C25_Witness ==
    /\ last.op = "uploadResource"
    /\ last.err = "InsufficientRoyaltyPayment"
    /\ \E path \in Paths, items \in Batches, p \in Publishers :
          /\ Len(items) = 2
          /\ dataPointSize(dataPointData, calculateAddress(items[1])) = 0
          /\ royaltyDue(CurrentLedger, items[2]) > 0
          /\ uploadResource(CurrentSite, path, items, p, 0).err
                = "InsufficientRoyaltyPayment"
          /\ uploadResource(CurrentSite, path, items, p, 0).arg = last.arg

C29_RefusalHidesExistence ==
    \A account \in Accounts, path \in Paths :
        ~(methodAllowed(metadata, path, "LOCATE")
          /\ isAuthorized(metadata, path, "LOCATE", account))
        =>
        \A s \in RangeEnds(MaxChunks), e \in RangeEnds(MaxChunks) :
          LET here == locate(CurrentSite, account, path, Range(s, e))
              other(chunks) ==
                  locate(Site(CurrentLedger,
                              [resource EXCEPT ![path] = chunks],
                              metadata),
                         account, path, Range(s, e))
          IN
          /\ here.err \in {"MethodNotAllowed", "Forbidden"}
          /\ here.dataPoints = <<>> /\ here.sizes = <<>>
          /\ here.totalSize = 0 /\ here.arg = 0
          /\ other(<<>>) = here
          /\ \A a \in StoredAddresses(dataPointData) :
                 other(<<a>>) = here

\* A LOCATE was refused on a path that holds no resource while the storage
\* holds data: with a resource on the path the answer is the same.
C29_Witness ==
    \E path \in Paths :
        /\ last.op = "LOCATE"
        /\ last.err \in {"MethodNotAllowed", "Forbidden"}
        /\ resource[path] = <<>>
        /\ \E account \in Accounts, a \in StoredAddresses(dataPointData) :
               /\ locate(CurrentSite, account, path, Range(0, 0)).err
                     = last.err
               /\ locate(Site(CurrentLedger,
                              [resource EXCEPT ![path] = <<a>>], metadata),
                         account, path, Range(0, 0)).err = last.err

SumOver(f) ==
    LET RECURSIVE sum(_)
        sum(n) == IF n = 0 THEN 0 ELSE f[n] + sum(n - 1)
    IN sum(NumAccounts)

\* What has left the balances by withdrawal: transferred or on its way.
Withdrawn ==
    SumOver(totalTransferred) + SumOver([p \in Accounts |-> InFlight(p)])

C32_RoyaltiesFollowRecord ==
    /\ \A c \in Accounts, Q \in Accounts :
          \A a \in StoredAddresses(dataPointData) :
            LET u == updatePublisherAddress(CurrentLedger, c, a, Q) IN
            u.err = "" =>
              /\ u.L.bal = publisherBalance
              /\ u.L.retained = protocolRetained
              /\ u.L.funds = contractFunds
              /\ u.L.roy[a].publisher = Q
              /\ \A d \in NonEmptyData, p \in Publishers :
                   calculateAddress(d) = a =>
                     LET owed == getDataPointRoyalty(u.L.roy, u.L.rate, a)
                         r == registerDataPoint(u.L, d, p, owed)
                     IN
                     /\ r.err = ""
                     /\ r.L.roy[a].publisher = Q
                     /\ r.L.bal = [publisherBalance EXCEPT
                                      ![Q] = @ + (owed - (owed \div 10))]
              /\ publisherBalance[c] > 0 =>
                   LET w == collectRoyalties(u.L, c, publisherBalance[c], c)
                   IN w.err = "" /\ w.transfer[1].amount = publisherBalance[c]
              /\ \A other \in Accounts \ {c}, to \in Accounts :
                   \A amt \in 1..(publisherBalance[other] + 1) :
                      collectRoyalties(u.L, other, amt, to).L.bal[c]
                         = publisherBalance[c]
    /\ \A d \in NonEmptyData, p \in Publishers :
          LET a == calculateAddress(d) IN
          \A v \in PayChoices(royaltyDue(CurrentLedger, d))
                      \cup {royaltyDue(CurrentLedger, d) + 1} :
             LET r == registerDataPoint(CurrentLedger, d, p, v) IN
             \A q \in Accounts :
                r.L.bal[q] # publisherBalance[q] =>
                   /\ r.err = ""
                   /\ dataPointSize(dataPointData, a) # 0
                   /\ dataPointRoyalties[a].publisher = q
                   /\ r.L.roy[a].publisher = q
                   /\ r.paid = RoyaltyOf(a)

\* The one stored data point has earned a royalty for its first publisher,
\* was handed to another publisher, and its next re-registration has
\* credited the new publisher; the first publisher still holds what they
\* earned.
C32_Witness ==
    /\ last.op = "registerDataPoint" /\ last.err = "" /\ last.arg > 0
    /\ StoredCount(dataPointData) = 1
    /\ \E a \in StoredAddresses(dataPointData), c \in Accounts :
          /\ HasPublisher(a)
          /\ c # dataPointRoyalties[a].publisher
          /\ publisherBalance[c] > 0
          /\ publisherBalance[c] = totalCredited[c]
          /\ totalCredited[dataPointRoyalties[a].publisher] > 0

\* C33: a re-registration never changes who a data point is attributed to.
\* registerDataPoint on data that is stored already returns the address it
\* has, leaves the publisher and the gas figure of every record as they
\* are, whatever publisher the caller names and whatever is paid, and
\* stores nothing.
C33_ReRegistrationKeepsRecord ==
    \A d \in NonEmptyData, p \in Publishers :
        LET a == calculateAddress(d)
            owed == royaltyDue(CurrentLedger, d)
        IN
        dataPointSize(dataPointData, a) # 0 =>
          \A v \in {0, owed, owed + 1} :
            LET r == registerDataPoint(CurrentLedger, d, p, v) IN
            /\ r.L.roy = dataPointRoyalties
            /\ r.L.dpd = dataPointData
            /\ ~r.new
            /\ r.addr = a
            /\ r.err = "" <=> v >= owed

\* Stored data with a publisher of record was registered again and the
\* royalty was paid; naming another publisher would have left the record
\* the same.
C33_Witness ==
    /\ last.op = "registerDataPoint" /\ last.err = "" /\ ~last.new
    /\ last.arg > 0
    /\ \E d \in NonEmptyData, p \in Accounts :
          LET a == calculateAddress(d) IN
          /\ HasPublisher(a)
          /\ RoyaltyOf(a) = last.arg
          /\ p # dataPointRoyalties[a].publisher
          /\ registerDataPoint(CurrentLedger, d, p, last.arg).L.roy[a]
                = dataPointRoyalties[a]

\* C34: the first registration of data costs nothing and credits nobody.
\* Sent without payment it succeeds, stores the data under its address,
\* writes the record with the publisher and the gas figure when a publisher
\* is named and no record when none is, and leaves every balance and the
\* amount the protocol retains as they were; a publisher that was never
\* credited has a balance of zero.
C34_FirstRegistrationFree ==
    /\ \A d \in NonEmptyData, p \in Publishers :
          LET a == calculateAddress(d)
              r == registerDataPoint(CurrentLedger, d, p, 0)
          IN
          dataPointSize(dataPointData, a) = 0 =>
            /\ r.err = "" /\ r.new /\ r.paid = 0 /\ r.addr = a
            /\ r.L.dpd = [dataPointData EXCEPT ![a] = d]
            /\ r.L.bal = publisherBalance
            /\ r.L.retained = protocolRetained
            /\ r.L.funds = contractFunds
            /\ r.L.roy =
                  IF p # ZeroAddress
                  THEN [dataPointRoyalties EXCEPT
                          ![a] = [publisher |-> p,
                                  gasUsed |-> gasUsedFor(d)]]
                  ELSE dataPointRoyalties
    /\ \A r \in RegisterCalls :
          (r.err = "" /\ r.new) =>
             /\ r.paid = 0
             /\ r.L.bal = publisherBalance
             /\ r.L.retained = protocolRetained
    /\ \A q \in Accounts :
          totalCredited[q] = 0 => publisherBalance[q] = 0

\* Data was registered for the first time with a publisher and without
\* payment: the record names the publisher, who has earned nothing.
C34_Witness ==
    /\ last.op = "registerDataPoint" /\ last.err = "" /\ last.new
    /\ totalReceived = 0
    /\ \E a \in StoredAddresses(dataPointData) :
          /\ HasPublisher(a)
          /\ dataPointRoyalties[a].gasUsed > 0
          /\ publisherBalance[dataPointRoyalties[a].publisher] = 0

(* ========================= resource catalog claims ==================== *)
\* C35: no chunk reference dangles. Every address in the chunk array of a
\* resource is the address of stored data, of size above zero: an address
\* is attached to a path only by a chunk write whose registration of the
\* data succeeded, and stored data is never removed.
C35_NoDanglingChunks ==
    \A path \in Paths :
        /\ \A i \in 1..Len(resource[path]) :
              /\ resource[path][i] # ZeroHash
              /\ dataPointSize(dataPointData, resource[path][i]) > 0
              /\ calculateAddress(readDataPoint(dataPointData,
                                                resource[path][i]))
                    = resource[path][i]
        /\ \A d \in Data, p \in Publishers :
              \A i \in IndexChoices(resource[path]),
                 v \in SiteValues(royaltyDue(CurrentLedger, d)) :
                LET c == createResource(CurrentSite, path, d, p, i, v) IN
                c.S.res[path] # resource[path] =>
                   /\ c.err = ""
                   /\ dataPointSize(c.S.L.dpd, c.addr) = Len(d)
                   /\ Len(d) > 0
        /\ \A call \in SiteCalls(path) :
              \A i \in 1..Len(call.S.res[path]) :
                 (i > Len(resource[path])
                     \/ call.S.res[path][i] # resource[path][i])
                 => /\ call.err = ""
                    /\ call.op \in {"createResource", "uploadResource"}
                    /\ dataPointSize(call.S.L.dpd, call.S.res[path][i]) > 0

\* A chunk write has attached data that was not stored before the resource
\* had chunks: the resource holds two chunks, both stored.
C35_Witness ==
    \E path \in Paths :
        /\ last.op = "createResource" /\ last.err = ""
        /\ Len(resource[path]) = 2
        /\ resource[path][1] # resource[path][2]
        /\ \A i \in 1..2 :
              dataPointSize(dataPointData, resource[path][i]) > 0

C37_PathsIsolated ==
    \A path \in SitePaths, p \in Publishers :
        LET same(S) ==
               \A other \in SitePaths \ {path} :
                  /\ S.res[other] = resource[other]
                  /\ S.meta[other] = metadata[other]
        IN
        /\ \A d \in Data, i \in IndexChoices(resource[path]) :
              \A v \in SiteValues(royaltyDue(CurrentLedger, d)) :
                 same(createResource(CurrentSite, path, d, p, i, v).S)
        /\ \A items \in Batches :
              \A v \in SiteValues(batchDue(CurrentLedger, items)) :
                 same(uploadResource(CurrentSite, path, items, p, v).S)
        /\ same(deleteResource(CurrentSite, path).S)
        /\ (last.op = "uploadResource" /\ last.err = "") =>
              \A second \in Batches :
                 LET u2 == uploadResource(CurrentSite, path, second, p,
                                          batchDue(CurrentLedger, second))
                 IN
                 u2.err = "" =>
                    /\ u2.S.res[path] =
                          [i \in 1..Len(second) |->
                              calculateAddress(second[i])]
                    /\ u2.S.meta[path].size
                          = totalSize(u2.S.L.dpd, u2.S.res[path])

\* Two paths hold different resources, and the one uploaded last, twice in
\* a row or more, holds one chunk while the other holds two.
C37_Witness ==
    \E path \in SitePaths, other \in SitePaths :
        /\ path # other
        /\ last.op = "uploadResource" /\ last.err = "" /\ last.arg = 1
        /\ Len(resource[path]) = 1
        /\ metadata[path].version >= 2
        /\ Len(resource[other]) = 2
        /\ metadata[other].version = 2

C39_StreamIsWholeContent ==
    \A path \in Paths, chunkSize \in 1..MaxChunkSize :
        resource[path] # <<>> =>
            LET r == streamLargeFile(dataPointData, resource[path], chunkSize)
            IN /\ r.err = ""
               /\ r.data = contentOf(dataPointData, resource[path])

====
